---- MODULE Spec2Model ----
(***************************************************************************)
(* A model of htmlwriter (src/htmlwriter/__init__.py): the HTMLTranslator  *)
(* visitor driven over a docutils document tree by Writer.translate, and   *)
(* the SimpleListChecker visitor used by is_compactable.                   *)
(*                                                                         *)
(* A document tree node is a record [k, a, c]: its kind (the docutils node *)
(* class name), its attributes and the sequence of its children.  A text   *)
(* is a sequence of characters (one-character strings); a markup fragment  *)
(* is a string, as in the code.  A position in the tree is the sequence of *)
(* child indexes leading to it from the document node.                     *)
(***************************************************************************)
EXTENDS Integers, Sequences, FiniteSets, TLC

\* ------------------------------------------------------------------------
\* Bounds of the model
\* ------------------------------------------------------------------------
MaxParas == 2

MaxSibs == 3

MaxRaws == 2

MaxBackrefs == 2

MaxItemKids == 2

MaxCols == 2

MaxDepth == 2

MaxText == 2

MaxIds == 3

\* ------------------------------------------------------------------------
\* Sequences, strings and tree positions
\* ------------------------------------------------------------------------
Front(s) == SubSeq(s, 1, Len(s) - 1)

Last(s) == s[Len(s)]

RECURSIVE Join(_, _)
Join(ss, sep) ==
    IF ss = <<>> THEN ""
    ELSE IF Len(ss) = 1 THEN ss[1]
    ELSE ss[1] \o sep \o Join(Tail(ss), sep)

Concat(ss) == Join(ss, "")

Range(s) == {s[i] : i \in DOMAIN s}

RECURSIVE SeqsUpTo(_, _)
SeqsUpTo(S, n) ==
    IF n = 0 THEN {<<>>}
    ELSE LET shorter == SeqsUpTo(S, n - 1)
         IN  shorter \cup {Append(s, x) : s \in {t \in shorter : Len(t) = n - 1}, x \in S}

\* ------------------------------------------------------------------------
\* Document tree nodes
\* ------------------------------------------------------------------------
\* The attributes the handlers read; "", <<>> and -1 stand for an absent one.
Attr ==
    [classes |-> <<>>, ids |-> <<>>, backrefs |-> <<>>, format |-> <<>>,
     text |-> <<>>, title |-> <<>>, start |-> "", enumtype |-> "",
     stub |-> FALSE, colwidth |-> 0, morerows |-> -1, morecols |-> -1,
     refid |-> "", refuri |-> <<>>, uri |-> <<>>, alt |-> <<>>, scale |-> -1,
     width |-> <<>>, height |-> <<>>, align |-> <<>>]

Node(k, c) == [k |-> k, a |-> Attr, c |-> c]

NodeA(k, a, c) == [k |-> k, a |-> a, c |-> c]

TextNode(t) == [k |-> "Text", a |-> [Attr EXCEPT !.text = t], c |-> <<>>]

NoNode == [k |-> "", a |-> Attr, c |-> <<>>]

RECURSIVE NodeAt(_, _)
NodeAt(tree, p) ==
    IF p = <<>> THEN tree ELSE NodeAt(tree.c[Head(p)], Tail(p))

RECURSIVE ReplaceAt(_, _, _)
ReplaceAt(tree, p, new) ==
    IF p = <<>> THEN new
    ELSE [tree EXCEPT !.c[Head(p)] = ReplaceAt(tree.c[Head(p)], Tail(p), new)]

\* Node.astext(): the concatenated text of a node's subtree.
RECURSIVE astext(_)
astext(node) ==
    IF node.k = "Text" THEN node.a.text
    ELSE IF node.c = <<>> THEN <<>>
    ELSE astext(node.c[1]) \o astext([node EXCEPT !.c = Tail(node.c)])

\* ------------------------------------------------------------------------
\* Markup Emitter: encode, attval, starttag, emptytag
\* ------------------------------------------------------------------------
NBSP == "U+00A0"

\* A table that takes the space for the non-breaking space.
encodeSpace(ch) ==
    CASE ch = "&" -> "&amp;"
      [] ch = "<" -> "&lt;"
      [] ch = "\"" -> "&quot;"
      [] ch = ">" -> "&gt;"
      [] ch = "@" -> "&#64;"
      [] ch = " " -> "&nbsp;"
      [] OTHER -> ch

encodeChar(ch) ==
    CASE ch = "&" -> "&amp;"
      [] ch = "<" -> "&lt;"
      [] ch = "\"" -> "&quot;"
      [] ch = ">" -> "&gt;"
      [] ch = "@" -> "&#64;"
      [] ch = NBSP -> "&nbsp;"
      [] OTHER -> ch

encode(text) == Concat([i \in DOMAIN text |-> encodeChar(text[i])])

\* The encoded characters of a text, one by one.
encoded_chars(text) == [i \in DOMAIN text |-> encodeChar(text[i])]

\* cloak_mailto(uri): "@" becomes the URL octet reference "%40".
cloak_mailto(uri) == [i \in DOMAIN uri |-> IF uri[i] = "@" THEN "%40" ELSE uri[i]]

\* cloak_email(addr), on the encoded characters of the address.
cloak_email(addr) ==
    [i \in DOMAIN addr |->
        CASE addr[i] = "&#64;" -> "<span>&#64;</span>"
          [] addr[i] = "." -> "<span>&#46;</span>"
          [] OTHER -> addr[i]]

\* The names an attribute of a start tag can have, in sorted() order.
AttrNames ==
    <<"alt", "class", "colspan", "data", "height", "href", "id", "lang",
      "rowspan", "src", "start", "style", "type", "width">>

NoAtts == [n \in {} |-> ""]

\* cls.startswith('language-'): the language a class names, "" if none.
LanguageOf(cls) ==
    CASE cls = "language-python" -> "python"
      [] cls = "language-c" -> "c"
      [] OTHER -> ""

RECURSIVE UnifyClasses(_, _)
UnifyClasses(all, classes) ==
    IF all = <<>> THEN classes
    ELSE LET cls == Head(all)
         IN  UnifyClasses(Tail(all),
                 IF LanguageOf(cls) = "" /\ cls # "" /\ cls \notin Range(classes)
                 THEN Append(classes, cls) ELSE classes)

\* The items of a dictionary in an order its iteration can take.
Orders(atts) ==
    {[i \in DOMAIN o |-> <<o[i], atts[o[i]]>>] :
        o \in {f \in [1..Cardinality(DOMAIN atts) -> DOMAIN atts] :
                  \A i, j \in DOMAIN f : i # j => f[i] # f[j]}}

\* The items left in the order the dictionary yields them.
unsorted(items) == items

\* sorted(atts.items()): the items ordered by name.
sorted(items) ==
    LET names == SelectSeq(AttrNames,
                           LAMBDA n : \E i \in DOMAIN items : items[i][1] = n)
    IN  [j \in DOMAIN names |->
            items[CHOOSE i \in DOMAIN items : items[i][1] = names[j]]]

\* '<%s>' % ' '.join(parts) for the items of atts.
tag_text(tagname, items) ==
    LET attlist == sorted(items)
        parts == <<tagname>> \o
                 [i \in DOMAIN attlist |->
                     attlist[i][1] \o "=\"" \o attlist[i][2] \o "\""]
    IN  "<" \o Join(parts, " ") \o ">"

\* An empty span for every identifier, the first included.
span_for_each(ids) ==
    Concat([i \in DOMAIN ids |-> "<span id=\"" \o ids[i] \o "\"></span>"])

\* The empty span elements for the additional identifiers ids[1:].
id_spans(ids) ==
    Concat([i \in 1..(Len(ids) - 1) |->
               "<span id=\"" \o ids[i + 1] \o "\"></span>"])

\* starttag(node, tagname, suffix, empty, **attributes): `cls` is the split
\* value of the class attribute, `attributes` maps the other (lower-cased)
\* attribute names to their values.
starttag(node, tagname, suffix, empty, cls, attributes) ==
    LET all == node.a.classes \o cls
        languages == SelectSeq([i \in DOMAIN all |-> LanguageOf(all[i])],
                               LAMBDA l : l # "")
        classes == UnifyClasses(all, <<>>)
        ids == node.a.ids
        atts1 == IF languages # <<>>
                 THEN ("lang" :> languages[1]) @@ attributes ELSE attributes
        atts2 == IF classes # <<>>
                 THEN ("class" :> Join(classes, " ")) @@ atts1 ELSE atts1
        atts == IF ids # <<>> THEN ("id" :> ids[1]) @@ atts2 ELSE atts2
        items == CHOOSE o \in Orders(atts) : TRUE
    IN  (IF empty THEN id_spans(ids) ELSE "") \o tag_text(tagname, items) \o suffix
        \o (IF empty THEN "" ELSE id_spans(ids))

emptytag(node, tagname, suffix, cls, attributes) ==
    starttag(node, tagname, suffix, TRUE, cls, attributes)

\* ------------------------------------------------------------------------
\* State
\* ------------------------------------------------------------------------
VARIABLES
    doc,                \* the document tree being translated
    settings,           \* document.settings
    path, pc,           \* the walk: the current node and what is due for it
    trace,              \* history of the handlers called
    reported,           \* messages passed to document.reporter
    context,            \* HTMLTranslator.context
    head_prefix, head, meta, stylesheet, body_prefix, body_suffix,
    html_prolog, html_head, html_body, fragment,
    body_pre_docinfo, docinfo, body,
    title, subtitle, html_title, html_subtitle,
    header, footer,
    in_document_title,
    in_footnote_list,
    compact_simple, compact_p, topic_classes,
    section_level,
    colspecs,
    stubs, column,      \* tgroup.stubs and row.column, by node position
    math_output, math_output_options, math_header,
    in_mailto, protect_literal_text, line_block_nest

walkVars == <<path, pc, trace>>

pageBufs ==
    <<head_prefix, head, meta, stylesheet, body_prefix, body_suffix,
      html_prolog, html_head, html_body, fragment, docinfo>>

titleBufs == <<body_pre_docinfo, title, subtitle, html_title, html_subtitle>>

decoBufs == <<header, footer>>

titleFlags == <<in_document_title>>

noteFlags == <<in_footnote_list>>

listFlags == <<compact_simple, compact_p, topic_classes>>

sectFlags == <<section_level>>

tableFlags == <<colspecs, stubs, column>>

mathFlags == <<math_output, math_output_options, math_header, reported>>

textFlags == <<in_mailto, protect_literal_text, line_block_nest>>

flags ==
    <<titleFlags, noteFlags, listFlags, sectFlags, tableFlags, mathFlags, textFlags>>

vars ==
    <<doc, settings, walkVars, context, pageBufs, titleBufs, decoBufs, body,
      flags>>

\* What most handlers leave alone: everything but the body buffer, and
\* everything but the body buffer and the context stack.
OnlyBody ==
    UNCHANGED <<doc, settings, context, pageBufs, titleBufs, decoBufs, flags>>

BodyAndContext ==
    UNCHANGED <<doc, settings, pageBufs, titleBufs, decoBufs, flags>>

Nothing ==
    UNCHANGED <<doc, settings, context, pageBufs, titleBufs, decoBufs, flags,
                body>>

\* ------------------------------------------------------------------------
\* The documents and settings translated
\* ------------------------------------------------------------------------
Texts == {<<"H", "i">>, <<"B", "o", "d", "y">>}

Paragraph(t) == Node("paragraph", <<TextNode(t)>>)

Paragraphs(n) == SeqsUpTo({Paragraph(t) : t \in Texts}, n)

Title(t) == Node("title", <<TextNode(t)>>)

Subtitle(t) == Node("subtitle", <<TextNode(t)>>)

Decorations ==
    LET h == Node("header", <<Paragraph(<<"H", "i">>)>>)
        f == Node("footer", <<Paragraph(<<"B", "o", "d", "y">>)>>)
    IN  {<<>>, <<Node("decoration", <<h>>)>>, <<Node("decoration", <<f>>)>>,
         <<Node("decoration", <<h, f>>)>>}

Document(t, c) == NodeA("document", [Attr EXCEPT !.title = t], c)

TitledDocuments ==
    {Document(<<"H", "i">>, <<Title(<<"H", "i">>)>> \o s \o d \o ps) :
        s \in {<<>>, <<Subtitle(<<"B", "o", "d", "y">>)>>},
        d \in Decorations, ps \in Paragraphs(MaxParas)}
    \cup {Document(<<>>, d \o ps) : d \in Decorations, ps \in Paragraphs(MaxParas)}
    \cup {Document(<<>>, ps \o <<Subtitle(<<"B", "o", "d", "y">>)>> \o d) :
            ps \in Paragraphs(1), d \in Decorations}
    \cup {Document(<<>>, <<Node("block_quote", <<Subtitle(<<"H", "i">>)>>)>>)}

\* Footnotes and citations: a label and a paragraph, and the identifiers of
\* the references to it.
Backrefs(n) == [i \in 1..n |-> "r" \o ToString(i)]

Label(k, n, more) ==
    NodeA(k, [Attr EXCEPT !.ids = <<"n1">>, !.backrefs = Backrefs(n)],
          <<Node("label", <<TextNode(<<"1">>)>>), Paragraph(<<"H", "i">>)>> \o more)

NoteBlocks ==
    {Paragraph(<<"B", "o", "d", "y">>), Label("footnote", 1, <<>>),
     Label("citation", 1, <<>>),
     Label("footnote", 1, <<Label("footnote", 1, <<>>)>>)}

NoteDocuments == {Document(<<>>, c) : c \in SeqsUpTo(NoteBlocks, MaxSibs)}

LabelDocuments ==
    {Document(<<>>, <<Label(k, n, <<>>)>>) :
        k \in {"footnote", "citation"}, n \in 0..MaxBackrefs}

\* Nodes whose visit raises SkipNode, and a node kind without a handler.
Unimplemented == Node("substitution_reference", <<TextNode(<<"x">>)>>)

RawNodes ==
    {NodeA("raw", [Attr EXCEPT !.format = f, !.classes = cl], c) :
        f \in {<<"html">>, <<"latex">>, <<"latex", "html">>},
        cl \in {<<>>, <<"c">>},
        c \in {<<TextNode(<<"<", "b", ">">>)>>, <<Unimplemented>>}}

RawBlocks ==
    {r \in RawNodes : r.a.classes = <<>> \/ r.c[1].k = "Text"}
    \cup {Paragraph(<<"H", "i">>), Unimplemented,
          Node("paragraph",
               <<TextNode(<<"a">>),
                 NodeA("raw", [Attr EXCEPT !.format = <<"html">>, !.classes = <<"c">>],
                       <<TextNode(<<"&">>)>>)>>)}

RawDocuments == {Document(<<>>, c) : c \in SeqsUpTo(RawBlocks, MaxRaws)}

Generated(cl) ==
    NodeA("generated", [Attr EXCEPT !.classes = cl], <<TextNode(<<"1", NBSP>>)>>)

SkipBlocks ==
    {Node("comment", <<TextNode(<<"a", "-", "-", "-", "b">>)>>),
     Node("substitution_definition", <<TextNode(<<"x">>)>>),
     Node("math_block", <<TextNode(<<"x", "<", "y">>)>>),
     Node("math_block", <<TextNode(<<"x", "\\\\", "y">>)>>),
     Node("paragraph", <<TextNode(<<"a">>), Node("math", <<TextNode(<<"x", "&", "y">>)>>),
                         TextNode(<<"b">>)>>),
     Node("paragraph", <<Generated(<<"sectnum">>), Generated(<<>>)>>)}

SkipDocuments == {Document(<<>>, c) : c \in SeqsUpTo(SkipBlocks, MaxRaws)}

\* Lists: an item holds an optional comment and up to MaxItemKids visible
\* blocks, the nested lists among them holding one or two paragraphs.
ListKinds ==
    {"bullet_list", "enumerated_list", "field_list", "definition_list", "docinfo"}

Name == TextNode(<<"k">>)

\* A list of kind k with attributes a whose items hold `contents`.
ListOf(k, a, contents) ==
    LET item(c) ==
          CASE k \in {"bullet_list", "enumerated_list"} -> Node("list_item", c)
            [] k \in {"field_list", "docinfo"} ->
                 Node("field", <<Node("field_name", <<Name>>), Node("field_body", c)>>)
            [] k = "definition_list" ->
                 Node("definition_list_item",
                      <<Node("term", <<Name>>), Node("definition", c)>>)
        items == [i \in DOMAIN contents |-> item(contents[i])]
    IN  NodeA(k, a,
              IF k = "docinfo"
              THEN <<Node("author", <<TextNode(<<"A", "@", "\n", "B">>)>>),
                     Node("date", <<TextNode(<<"1">>)>>)>> \o items
              ELSE items)

P == Paragraph(<<"H", "i">>)

InnerLists ==
    {ListOf(k, Attr, <<<<P>>>>) : k \in ListKinds \ {"docinfo"}}
    \cup {ListOf("bullet_list", Attr, <<<<P, P>>>>)}

VisibleBlocks == {P, Node("block_quote", <<P>>)} \cup InnerLists

ItemContents ==
    {pre \o c : pre \in {<<>>, <<Node("comment", <<Name>>)>>},
                c \in SeqsUpTo(VisibleBlocks, MaxItemKids)}

ListDocuments ==
    {Document(<<>>, <<ListOf(k, Attr, <<c>>)>>) : k \in ListKinds, c \in ItemContents}

\* A titled document whose docinfo follows the title and the subtitle.
DocinfoDocuments ==
    {Document(<<"H", "i">>,
              <<Title(<<"H", "i">>)>> \o s \o <<ListOf("docinfo", Attr, <<<<P>>>>)>> \o ps) :
        s \in {<<>>, <<Subtitle(<<"B", "o", "d", "y">>)>>}, ps \in {<<>>, <<P>>}}

\* Lists with a class argument or numbering attributes, of one or two items.
MarkedLists ==
    {ListOf(k, a, cs) :
        k \in ListKinds,
        a \in {Attr, [Attr EXCEPT !.classes = <<"compact">>],
               [Attr EXCEPT !.classes = <<"open">>],
               [Attr EXCEPT !.classes = <<"compact", "open">>],
               [Attr EXCEPT !.classes = <<"open", "compact">>],
               [Attr EXCEPT !.start = "3", !.enumtype = "arabic"]},
        cs \in {<<<<P>>>>, <<<<P, P>>>>, <<<<P>>, <<P, P>>>>}}

MarkedListDocuments == {Document(<<>>, <<l>>) : l \in MarkedLists}

\* Tables of one group: up to MaxCols columns, the first possibly a stub
\* column, an optional head row and one body row.
Colspec(stub, w) == NodeA("colspec", [Attr EXCEPT !.stub = stub, !.colwidth = w], <<>>)

Entry(morecols, c) == NodeA("entry", [Attr EXCEPT !.morecols = morecols], c)

Row(n) == Node("row", [i \in 1..n |-> Entry(-1, <<P>>)])

TablesOf(n) ==
    {Node("table",
          cap \o <<Node("tgroup",
                        <<Colspec(stub, 1)>> \o [i \in 1..(n - 1) |-> Colspec(FALSE, 2)]
                        \o hd \o <<Node("tbody", <<row>>)>>)>>) :
        cap \in {<<>>, <<Title(<<"H", "i">>)>>},
        stub \in BOOLEAN,
        hd \in {<<>>, <<Node("thead", <<Row(n)>>)>>},
        row \in {Row(n), Node("row", <<Entry(n - 1, <<>>)>>),
                 Node("row", <<Entry(-1, <<Node("bullet_list",
                                                <<Node("list_item", <<P>>)>>)>>)>>)}}

Tables == UNION {TablesOf(n) : n \in 1..MaxCols}

\* Tables of 2..MaxCols + 1 columns, any of them stub columns, whose body row
\* starts with a cell of every stored row and column span (-1: none stored);
\* `fill` is the number of plain cells that follow it.
Cell(morerows, morecols) ==
    NodeA("entry", [Attr EXCEPT !.morerows = morerows, !.morecols = morecols], <<>>)

Spans == {-1, 0, 1}

SpanRows(n) ==
    {Node("row", <<Cell(mr, mc)>> \o [i \in 1..fill |-> Cell(-1, -1)]) :
        mr \in Spans, mc \in Spans, fill \in {n - 2, n - 1}}

SpanTables ==
    UNION {{Node("table",
                 <<Node("tgroup",
                        [i \in 1..n |-> Colspec(st[i], 1)]
                        \o hd \o <<Node("tbody", <<row>>)>>)>>) :
              st \in [1..n -> BOOLEAN],
              hd \in {<<>>, <<Node("thead", <<Node("row", <<Cell(-1, n - 1)>>)>>)>>},
              row \in SpanRows(n)} : n \in 2..(MaxCols + 1)}

\* Tables whose columns take every combination of these widths.
Widths == {1, 2, 3, 7}

WidthTables ==
    UNION {{Node("table",
                 <<Node("tgroup",
                        [i \in 1..n |-> Colspec(FALSE, ws[i])]
                        \o hd \o <<Node("tbody", <<Row(n)>>)>>)>>) :
              ws \in [1..n -> Widths],
              hd \in {<<>>, <<Node("thead", <<Row(n)>>)>>}} : n \in 1..MaxCols}

\* Two table groups in a row, in one table or in two: each of 1..MaxCols
\* columns as wide as the group has columns, with or without a head.
Groups ==
    {Node("tgroup", [i \in 1..n |-> Colspec(FALSE, n)] \o hd
                    \o <<Node("tbody", <<Row(n)>>)>>) :
        n \in 1..MaxCols, hd \in {<<>>, <<Node("thead", <<Row(1)>>)>>}}

GroupDocuments ==
    {Document(<<>>, <<Node("table", <<g1, g2>>)>>) : g1 \in Groups, g2 \in Groups}
    \cup {Document(<<>>, <<Node("table", <<g1>>), Node("table", <<g2>>)>>) :
            g1 \in Groups, g2 \in Groups}

TableDocuments ==
    {Document(<<>>, pre \o <<t>> \o post) :
        pre \in {<<>>, <<P>>}, t \in Tables, post \in {<<>>, <<P>>}}

\* Sections nested up to MaxDepth deep, and topics.
SectionTitles ==
    {Title(<<"H", "i">>),
     NodeA("title", [Attr EXCEPT !.refid = "toc"], <<TextNode(<<"H", "i">>)>>)}

RECURSIVE Sections(_)
Sections(depth) ==
    IF depth = 0 THEN {}
    ELSE {Node("section", <<t>> \o sub \o body1 \o inner) :
            t \in SectionTitles,
            sub \in {<<>>, <<Subtitle(<<"B", "o", "d", "y">>)>>},
            body1 \in {<<>>, <<P>>},
            inner \in {<<>>} \cup {<<sec>> : sec \in Sections(depth - 1)}}

Topics ==
    {NodeA("topic", [Attr EXCEPT !.classes = cl],
           <<Title(<<"H", "i">>), ListOf(k, Attr, <<c>>)>>) :
        cl \in {<<>>, <<"contents">>, <<"contents", "local">>},
        k \in {"bullet_list", "enumerated_list"},
        c \in {<<P>>, <<P, P>>}}

SectionDocuments ==
    {Document(<<>>, <<sec>>) : sec \in Sections(MaxDepth)}
    \cup {Document(<<"B", "o", "d", "y">>, <<Title(<<"B", "o", "d", "y">>), sec>>) :
            sec \in Sections(1)}
    \cup {Document(<<>>, <<top>> \o rest) :
            top \in Topics,
            rest \in {<<>>, <<ListOf("bullet_list", Attr, <<<<P, P>>>>)>>}}

\* Paragraphs of every text of up to MaxText of these characters.
Alphabet == {"a", " ", "@", NBSP, "&", "<", ">", "\""}

EncodedDocuments ==
    {Document(<<>>, <<Paragraph(t)>>) : t \in SeqsUpTo(Alphabet, MaxText) \ {<<>>}}

\* Nodes carrying 0..MaxIds identifiers: a paragraph, a bullet list, a
\* numbered list and the only column of a table.
Ids(n) == [i \in 1..n |-> "i" \o ToString(i)]

IdBlocks(ids) ==
    {NodeA("paragraph", [Attr EXCEPT !.ids = ids], <<TextNode(<<"H", "i">>)>>),
     ListOf("bullet_list", [Attr EXCEPT !.ids = ids], <<<<P>>>>),
     ListOf("enumerated_list",
            [Attr EXCEPT !.ids = ids, !.start = "3", !.enumtype = "arabic"], <<<<P>>>>),
     Node("table",
          <<Node("tgroup",
                 <<NodeA("colspec", [Attr EXCEPT !.ids = ids, !.colwidth = 1], <<>>),
                   Node("tbody", <<Node("row", <<Cell(-1, -1)>>)>>)>>)>>)}

IdDocuments ==
    {Document(<<>>, <<b>>) : b \in UNION {IdBlocks(Ids(n)) : n \in 0..MaxIds}}

\* Paragraphs of two text runs, the second inside an inline node, that end
\* and begin with a letter or a non-ASCII character, with or without a space
\* between them.
SplitParagraphs ==
    {Node("paragraph", <<TextNode(t1), Node("generated", <<TextNode(t2)>>)>>) :
        t1 \in {<<"a">>, <<"a", " ">>, <<"U+3042">>, <<"U+3042", " ">>},
        t2 \in {<<"b">>, <<" ", "b">>, <<"U+3044">>, <<" ", "U+3044">>}}

SplitDocuments == {Document(<<>>, <<para>>) : para \in SplitParagraphs}

\* Links in a paragraph and in a line block, between two text runs: to a
\* mail address, to another external target and to an internal one, their
\* text plain or literal.
Address == <<"a", "@", "b", ".", "c">>

Links ==
    {NodeA("reference", a, c) :
        a \in {[Attr EXCEPT !.refuri = <<"mailto:">> \o Address],
               [Attr EXCEPT !.refuri = <<"http:">> \o Address],
               [Attr EXCEPT !.refid = "toc"]},
        c \in {<<TextNode(Address)>>, <<Node("literal", <<TextNode(Address)>>)>>,
               <<TextNode(<<"a", " ", " ", "b", "\n", "\t", ".">>)>>}}

LinkDocuments ==
    {Document(<<>>, <<Node("paragraph", <<TextNode(Address), l, TextNode(Address)>>)>>) :
        l \in Links}
    \cup {Document(<<>>, <<Node("line_block",
                               <<Node("line", <<TextNode(Address), l, TextNode(Address)>>)>>)>>) :
            l \in Links}
    \cup {Document(<<>>, <<NodeA("reference", Attr, <<TextNode(Address)>>)>>)}

\* Images: of every file extension with and without a scale; of every
\* combination of scale, width and height; and of every alignment, as a
\* block, inside a paragraph and as the only child of a link.
Image(uri, scale, width, height, align) ==
    NodeA("image", [Attr EXCEPT !.uri = uri, !.scale = scale, !.width = width,
                                !.height = height, !.align = align], <<>>)

Images ==
    {Image(<<"x">> \o ext, scale, <<>>, <<>>, <<>>) :
        ext \in {<<>>, <<".png">>, <<".swf">>, <<".SWF">>}, scale \in {-1, 50}}
    \cup {Image(<<"x", ".png">>, scale, width, height, <<>>) :
            scale \in {-1, 50},
            width \in {<<>>, <<10, "">>, <<10, "em">>},
            height \in {<<>>, <<20, "px">>}}
    \cup {Image(<<"x", ".png">>, 50, <<>>, <<>>, align) :
            align \in {<<"center">>, <<"left", "top">>, <<"middle">>}}

ImageDocuments ==
    {Document(<<>>, <<img>>) : img \in Images}
    \cup {Document(<<>>, <<Node("paragraph", <<img>>)>>) : img \in Images}
    \cup {Document(<<>>, <<NodeA("reference", [Attr EXCEPT !.refuri = <<"http:", "a">>],
                                 <<img>>)>>) : img \in Images}

\* A topic alone, translated with compact lists disabled as well.
TopicDocuments == {Document(<<>>, <<top>>) : top \in Topics}

MathOutputs ==
    {<<"HTML", "math.css">>, <<"HTML">>, <<"MathML">>, <<"MathJax">>,
     <<"MathJax", "/mathjax.js">>, <<"LaTeX">>, <<"asciimath">>}

DefaultSettings ==
    [language_code |-> "en", output_encoding |-> "utf-8",
     footnote_backlinks |-> TRUE, footnote_references |-> "brackets",
     compact_lists |-> TRUE, compact_field_lists |-> TRUE,
     initial_header_level |-> 1, table_style |-> <<>>,
     math_output |-> <<"HTML", "math.css">>,
     cloak_email_addresses |-> FALSE, file_insertion_enabled |-> TRUE]

Inputs ==
    (TitledDocuments \X {DefaultSettings})
    \cup (NoteDocuments \X {DefaultSettings})
    \cup (LabelDocuments \X
            {[DefaultSettings EXCEPT !.footnote_backlinks = b,
                                     !.footnote_references = r] :
                b \in BOOLEAN, r \in {"brackets", "superscript"}})
    \cup (RawDocuments \X {DefaultSettings})
    \cup (SkipDocuments \X
            {[DefaultSettings EXCEPT !.math_output = m] : m \in MathOutputs})
    \cup (ListDocuments \X {DefaultSettings})
    \cup (TableDocuments \X {DefaultSettings})
    \cup (SectionDocuments \X
            {[DefaultSettings EXCEPT !.initial_header_level = l] : l \in {1, 6}})
    \cup ({Document(<<>>, <<t>>) : t \in WidthTables} \X {DefaultSettings})
    \cup ({Document(<<>>, <<t>>) : t \in SpanTables} \X {DefaultSettings})
    \cup (EncodedDocuments \X {DefaultSettings})
    \cup (IdDocuments \X {DefaultSettings})
    \cup (SplitDocuments \X {DefaultSettings})
    \cup (ImageDocuments \X {DefaultSettings})
    \cup (LinkDocuments \X
            {[DefaultSettings EXCEPT !.cloak_email_addresses = b] : b \in BOOLEAN})
    \cup (DocinfoDocuments \X {DefaultSettings})
    \cup (GroupDocuments \X {DefaultSettings})
    \cup (TopicDocuments \X {[DefaultSettings EXCEPT !.compact_lists = FALSE]})
    \cup (MarkedListDocuments \X
            {DefaultSettings, [DefaultSettings EXCEPT !.compact_lists = FALSE],
             [DefaultSettings EXCEPT !.compact_field_lists = FALSE]})

\* ------------------------------------------------------------------------
\* Initial state: HTMLTranslator.__init__
\* ------------------------------------------------------------------------
\* HTMLTranslator.generator % docutils.__version__
Generator ==
    "<meta name=\"generator\" content=\"Docutils " \o "0.12"
    \o ": http://docutils.sourceforge.net/\">\n"

ContentType(enc) == "<meta charset=\"" \o enc \o "\">\n"

Doctype == "<!DOCTYPE html>\n"

\* str.lower() of the names a math_output setting can start with and of the
\* file extensions.
Lower(word) ==
    CASE word = "HTML" -> "html"
      [] word = ".SWF" -> ".swf"
      [] word = ".PNG" -> ".png"
      [] word = "MathML" -> "mathml"
      [] word = "MathJax" -> "mathjax"
      [] word = "LaTeX" -> "latex"
      [] OTHER -> word

Init ==
    /\ \E in \in Inputs : doc = in[1] /\ settings = in[2]
    /\ path = <<>>
    /\ pc = "enter"
    /\ trace = <<>>
    /\ context = <<>>
    /\ meta = <<Generator>>
    /\ head_prefix = <<>>
    /\ html_prolog = <<>>
    /\ head = <<Generator>>
    /\ stylesheet = <<"<style>\n\nhtmlwriter.css\n</style>\n">>
    /\ body_prefix = <<"</head>\n<body>\n">>
    /\ body_pre_docinfo = <<>>
    /\ docinfo = <<>>
    /\ body = <<>>
    /\ fragment = <<>>
    /\ body_suffix = <<"</body>\n</html>\n">>
    /\ title = <<>>
    /\ subtitle = <<>>
    /\ header = <<>>
    /\ footer = <<>>
    /\ html_head = <<"<meta charset=\"%s\">\n">>
    /\ html_title = <<>>
    /\ html_subtitle = <<>>
    /\ html_body = <<>>
    /\ in_document_title = 0
    /\ in_footnote_list = FALSE
    /\ compact_simple = FALSE
    /\ compact_p = "True"
    /\ topic_classes = <<>>
    /\ section_level = 0
    /\ colspecs = <<>>
    /\ stubs = NoAtts
    /\ column = NoAtts
    /\ math_output = Lower(settings.math_output[1])
    /\ math_output_options = Tail(settings.math_output)
    /\ math_header = <<>>
    /\ reported = <<>>
    /\ in_mailto = FALSE
    /\ protect_literal_text = FALSE
    /\ line_block_nest = 0

\* ------------------------------------------------------------------------
\* The walk: Node.walkabout as called by Writer.translate
\* ------------------------------------------------------------------------
Cur == NodeAt(doc, path)

Par == IF path = <<>> THEN NoNode ELSE NodeAt(doc, Front(path))

\* Where the walk goes once the node at p is finished.
AfterNode(p) ==
    IF p = <<>> THEN [path |-> <<>>, pc |-> "done"]
    ELSE IF Last(p) < Len(NodeAt(doc, Front(p)).c)
         THEN [path |-> Front(p) \o <<Last(p) + 1>>, pc |-> "enter"]
         ELSE [path |-> Front(p), pc |-> "exit"]

Log(ev) ==
    trace' = Append(trace, [ev |-> ev, path |-> path, k |-> Cur.k,
                            d0 |-> Len(context), d1 |-> Len(context'),
                            cs0 |-> compact_simple, cs1 |-> compact_simple',
                            body0 |-> body, body1 |-> body'])

\* A walk that does not descend into the children.
VisitedOnly ==
    /\ path' = path
    /\ pc' = "exit"
    /\ Log("visit")

\* dispatch_visit returned: the children are walked, then the departure.
Visited ==
    /\ path' = IF Len(NodeAt(doc', path).c) > 0 THEN path \o <<1>> ELSE path
    /\ pc' = IF Len(NodeAt(doc', path).c) > 0 THEN "enter" ELSE "exit"
    /\ Log("visit")

\* dispatch_visit raised nodes.SkipNode: neither the children nor the
\* departure are dispatched.
Skipped ==
    /\ path' = AfterNode(path).path
    /\ pc' = AfterNode(path).pc
    /\ Log("skip")

\* dispatch_departure returned.
Departed ==
    /\ path' = AfterNode(path).path
    /\ pc' = AfterNode(path).pc
    /\ Log("depart")

\* A handler raised an exception other than a traversal signal.
Raised ==
    /\ path' = path
    /\ pc' = "failed"
    /\ Log("raise")

\* A pop that leaves the entry on the stack.
NoPop(stack) == stack

\* self.context.pop(): what is left on the stack.
pop(stack) == Front(stack)

\* buf[start - 1:] in place of buf[start:-1]: the slice with both tags.
TaggedSlice(buf, start) == SubSeq(buf, start, Len(buf))

\* buf[start:-1] and buf[start:]
BodySlice(buf, start) == SubSeq(buf, start + 1, Len(buf) - 1)

\* buf[start + 1:] in place of buf[start:]
SinceNext(buf, start) == SubSeq(buf, start + 2, Len(buf))

Since(buf, start) == SubSeq(buf, start + 1, Len(buf))

Visiting(k) == pc = "enter" /\ Cur.k = k

Departing(k) == pc = "exit" /\ Cur.k = k

\* ------------------------------------------------------------------------
\* HTMLTranslator handlers
\* ------------------------------------------------------------------------
visit_document ==
    /\ Visiting("document")
    /\ head' = Append(head, "<title>" \o encode(Cur.a.title) \o "</title>\n")
    /\ UNCHANGED <<doc, settings, context, body, titleBufs, decoBufs, flags>>
    /\ UNCHANGED <<head_prefix, meta, stylesheet, body_prefix, body_suffix,
                   html_prolog, html_head, html_body, fragment, docinfo>>
    /\ Visited

depart_document ==
    /\ Departing("document")
    /\ head_prefix' = head_prefix \o
            <<Doctype, "<html lang=\"" \o settings.language_code \o "\">\n">>
    /\ html_prolog' = Append(html_prolog, Doctype)
    /\ meta' = <<ContentType(settings.output_encoding)>> \o meta
    /\ head' = <<ContentType(settings.output_encoding)>> \o head
               \o (IF math_output = "mathjax" THEN math_header ELSE <<>>)
    /\ stylesheet' = stylesheet
               \o (IF math_output = "mathjax" THEN <<>> ELSE math_header)
    /\ html_head' = html_head \o Tail(head')
    /\ body_prefix' = Append(body_prefix,
                             starttag(Cur, "div", "\n", FALSE, <<"document">>, NoAtts))
    /\ body_suffix' = <<"</div>\n">> \o body_suffix
    /\ fragment' = fragment \o body
    /\ html_body' = html_body \o Tail(body_prefix') \o body_pre_docinfo
                    \o docinfo \o body \o Front(body_suffix')
    /\ UNCHANGED <<doc, settings, context, body, titleBufs, decoBufs, flags,
                   docinfo>>
    /\ IF context = <<>> THEN Departed ELSE Raised

\* attval(text): [\n\r\t\v\f] become spaces, the text is encoded and, inside
\* a cloaked mailto reference, "%40" and "." become character references.
attval(text) ==
    LET encoded == encoded_chars([i \in DOMAIN text |->
                       IF text[i] \in {"\n", "\r", "\t"} THEN " " ELSE text[i]])
    IN  IF in_mailto /\ settings.cloak_email_addresses
        THEN Concat([i \in DOMAIN encoded |->
                        CASE encoded[i] = "%40" -> "&#37;&#52;&#48;"
                          [] encoded[i] = "." -> "&#46;"
                          [] OTHER -> encoded[i]])
        ELSE Concat(encoded)

\* words_and_spaces.findall(encoded), r'\S+| +|\n': the runs of characters
\* that are not whitespace, the runs of spaces and the single newlines; other
\* whitespace matches nothing.
RECURSIVE words_and_spaces(_)
words_and_spaces(encoded) ==
    IF encoded = <<>> THEN <<>>
    ELSE IF Head(encoded) = "\n"
    THEN <<<<"\n">>>> \o words_and_spaces(Tail(encoded))
    ELSE IF Head(encoded) \in {"\t", "\r"}
    THEN words_and_spaces(Tail(encoded))
    ELSE LET alike(ch) == IF Head(encoded) = " " THEN ch = " "
                          ELSE ch \notin {" ", "\n", "\t", "\r"}
             n == CHOOSE m \in 1..Len(encoded) :
                      /\ \A i \in 1..m : alike(encoded[i])
                      /\ m = Len(encoded) \/ ~alike(encoded[m + 1])
         IN  <<SubSeq(encoded, 1, n)>>
             \o words_and_spaces(SubSeq(encoded, n + 1, Len(encoded)))

\* The fragment visit_Text appends for a token of literal or line block text.
protected(token) ==
    IF Head(token) \notin {" ", "\n"}
    THEN "<span class=\"pre\">" \o Concat(token) \o "</span>"
    ELSE IF Len(token) = 1 THEN Head(token)
    ELSE Concat([i \in 1..(Len(token) - 1) |-> "&nbsp;"]) \o " "

visit_Text ==
    /\ Visiting("Text")
    /\ LET encoded == encoded_chars(astext(Cur))
           tokens == words_and_spaces(encoded)
       IN  body' =
             IF protect_literal_text \/ line_block_nest # 0
             THEN body \o [i \in DOMAIN tokens |-> protected(tokens[i])]
             ELSE Append(body,
                         Concat(IF in_mailto /\ settings.cloak_email_addresses
                                THEN cloak_email(encoded) ELSE encoded))
    /\ OnlyBody
    /\ Visited

depart_Text ==
    /\ Departing("Text")
    /\ Nothing
    /\ Departed

\* Characters outside the class [!-~] and, among them, those of [\n\r\t].
NonGraph == {" ", "\n", "\r", "\t", NBSP, "U+3042", "U+3044"}

Blank == {"\n", "\r", "\t"}

RECURSIVE BlankRun(_)
BlankRun(t) ==
    IF t # <<>> /\ Head(t) \in Blank THEN 1 + BlankRun(Tail(t)) ELSE 0

\* __RGX.sub(r"\1\2", text)
RECURSIVE RGXsub(_)
RGXsub(t) ==
    IF Len(t) < 3 THEN t
    ELSE LET run == BlankRun(Tail(t))
         IN  IF t[1] \in NonGraph /\ run >= 1
             THEN IF Len(t) > run + 1 /\ t[run + 2] \in NonGraph
                  THEN <<t[1], t[run + 2]>> \o RGXsub(SubSeq(t, run + 3, Len(t)))
                  ELSE IF run >= 2
                  THEN <<t[1], t[run + 1]>> \o RGXsub(SubSeq(t, run + 2, Len(t)))
                  ELSE <<t[1]>> \o RGXsub(Tail(t))
             ELSE <<t[1]>> \o RGXsub(Tail(t))

\* __RGX1.search(text) and __RGX2.search(text)
RGX1(t) == t # <<>> /\ Last(t) \in NonGraph

RGX2(t) == t # <<>> /\ Head(t) \in NonGraph

RECURSIVE strip_spaces_between_uchars(_)
strip_spaces_between_uchars(node) ==
    IF node.k = "Text" THEN [node EXCEPT !.a.text = RGXsub(@)]
    ELSE [node EXCEPT !.c = [i \in DOMAIN node.c |->
                                strip_spaces_between_uchars(node.c[i])]]

\* The texts of the Text nodes of para.traverse(), in document order.
RECURSIVE TextsOf(_)
TextsOf(node) ==
    IF node.k = "Text" THEN <<node.a.text>>
    ELSE LET parts == [i \in DOMAIN node.c |-> TextsOf(node.c[i])]
             F[i \in 0..Len(parts)] == IF i = 0 THEN <<>> ELSE F[i - 1] \o parts[i]
         IN  F[Len(parts)]

\* strip_spaces_around_uchars_paragraph_children reaches its call of the
\* unbound name Text: two successive texts match __RGX1 and __RGX2.
StripAroundFails(para) ==
    LET ts == TextsOf(para)
    IN  \E i \in 1..(Len(ts) - 1) : RGX1(ts[i]) /\ RGX2(ts[i + 1])

visit_paragraph ==
    /\ Visiting("paragraph")
    /\ UNCHANGED <<settings, context, pageBufs, titleBufs, decoBufs, flags>>
    /\ LET para == strip_spaces_between_uchars(Cur)
       IN  /\ doc' = ReplaceAt(doc, path, para)
           /\ IF StripAroundFails(para)
              THEN body' = body /\ Raised
              ELSE /\ body' = Append(body, starttag(para, "p", "", FALSE, <<>>, NoAtts))
                   /\ Visited

depart_paragraph ==
    /\ Departing("paragraph")
    /\ body' = body \o <<"</p>">> \o
               (IF Par.k \in {"list_item", "entry"} /\ Len(Par.c) = 1
                THEN <<>> ELSE <<"\n">>)
    /\ OnlyBody
    /\ Departed

\* Subclasses of nodes.Admonition.
Admonitions ==
    {"admonition", "attention", "caution", "danger", "error", "hint",
     "important", "note", "tip", "warning"}

\* h_level of a section title
h_level == section_level + settings.initial_header_level - 1

\* The fragments visit_title appends for a section title, and its close_tag.
SectionTitle(node, parent) ==
    LET h == "h" \o ToString(h_level)
        open == starttag(node, h, "", FALSE,
                         IF Len(parent.c) >= 2 /\ parent.c[2].k = "subtitle"
                         THEN <<"with-subtitle">> ELSE <<>>, NoAtts)
    IN  IF node.a.refid # ""
        THEN [tags |-> <<open, starttag(NoNode, "a", "", FALSE, <<"toc-backref">>,
                                        "href" :> ("#" \o node.a.refid))>>,
              close_tag |-> "</a></" \o h \o ">\n"]
        ELSE [tags |-> <<open>>, close_tag |-> "</" \o h \o ">\n"]

visit_title ==
    /\ Visiting("title")
    /\ UNCHANGED <<doc, settings, pageBufs, titleBufs, decoBufs>>
    /\ UNCHANGED <<noteFlags, listFlags, sectFlags, tableFlags, mathFlags,
                   textFlags>>
    /\ IF Par.k \in {"topic", "sidebar", "table", "document", "section"}
             \cup Admonitions
       THEN /\ body' = body \o
                 (CASE Par.k = "topic" ->
                         <<starttag(Cur, "p", "", FALSE, <<"topic-title", "first">>, NoAtts)>>
                    [] Par.k = "sidebar" ->
                         <<starttag(Cur, "p", "", FALSE, <<"sidebar-title">>, NoAtts)>>
                    [] Par.k \in Admonitions ->
                         <<starttag(Cur, "p", "", FALSE, <<"admonition-title">>, NoAtts)>>
                    [] Par.k = "table" ->
                         <<starttag(Cur, "caption", "", FALSE, <<>>, NoAtts)>>
                    [] Par.k = "document" ->
                         <<starttag(Cur, "h1", "", FALSE, <<"title">>, NoAtts)>>
                    [] Par.k = "section" -> SectionTitle(Cur, Par).tags)
            /\ in_document_title' =
                 IF Par.k = "document" THEN Len(body') ELSE in_document_title
            /\ context' = Append(context,
                 CASE Par.k = "table" -> "</caption>\n"
                   [] Par.k = "document" -> "</h1>\n"
                   [] Par.k = "section" -> SectionTitle(Cur, Par).close_tag
                   [] OTHER -> "</p>\n")
            /\ Visited
       ELSE /\ UNCHANGED <<body, in_document_title, context>>
            /\ Raised

\* A departure that moves the fragments whatever the parent of the title is.
slice_any_title ==
    /\ Departing("title")
    /\ title' = BodySlice(Append(body, Last(context)), in_document_title)
    /\ in_document_title' = 0
    /\ body_pre_docinfo' = body_pre_docinfo \o Append(body, Last(context))
    /\ html_title' = html_title \o Append(body, Last(context))
    /\ body' = <<>>
    /\ context' = pop(context)
    /\ UNCHANGED <<doc, settings, pageBufs, decoBufs, subtitle, html_subtitle>>
    /\ UNCHANGED <<noteFlags, listFlags, sectFlags, tableFlags, mathFlags,
                   textFlags>>
    /\ Departed

depart_title ==
    /\ Departing("title")
    /\ LET body1 == Append(body, Last(context))
       IN  IF in_document_title # 0
           THEN /\ title' = BodySlice(body1, in_document_title)
                /\ in_document_title' = 0
                /\ body_pre_docinfo' = body_pre_docinfo \o body1
                /\ html_title' = html_title \o body1
                /\ body' = <<>>
           ELSE /\ body' = body1
                /\ UNCHANGED <<title, in_document_title, body_pre_docinfo, html_title>>
    /\ context' = pop(context)
    /\ UNCHANGED <<doc, settings, pageBufs, decoBufs, subtitle, html_subtitle>>
    /\ UNCHANGED <<noteFlags, listFlags, sectFlags, tableFlags, mathFlags,
                   textFlags>>
    /\ Departed

\* A subtitle under any other parent leaves `classes` unbound.
visit_subtitle ==
    /\ Visiting("subtitle")
    /\ UNCHANGED <<doc, settings, context, pageBufs, titleBufs, decoBufs>>
    /\ UNCHANGED <<noteFlags, listFlags, sectFlags, tableFlags, mathFlags,
                   textFlags>>
    /\ IF Par.k \in {"sidebar", "document", "section"}
       THEN /\ in_document_title' =
                 IF Par.k = "document" THEN Len(body) ELSE in_document_title
            /\ body' = Append(body, starttag(Cur, "p", "", FALSE,
                           <<CASE Par.k = "sidebar" -> "sidebar-subtitle"
                               [] Par.k = "document" -> "subtitle"
                               [] OTHER -> "section-subtitle">>, NoAtts))
            /\ Visited
       ELSE /\ UNCHANGED <<in_document_title, body>>
            /\ Raised

depart_subtitle ==
    /\ Departing("subtitle")
    /\ LET body1 == Append(body, "</p>\n")
       IN  IF in_document_title # 0
           THEN /\ subtitle' = BodySlice(body1, in_document_title)
                /\ in_document_title' = 0
                /\ body_pre_docinfo' = body_pre_docinfo \o body1
                /\ html_subtitle' = html_subtitle \o body1
                /\ body' = <<>>
           ELSE /\ body' = body1
                /\ UNCHANGED <<subtitle, in_document_title, body_pre_docinfo,
                               html_subtitle>>
    /\ UNCHANGED <<doc, settings, context, pageBufs, decoBufs, title, html_title>>
    /\ UNCHANGED <<noteFlags, listFlags, sectFlags, tableFlags, mathFlags,
                   textFlags>>
    /\ Departed

visit_decoration ==
    /\ Visiting("decoration")
    /\ Nothing
    /\ Visited

depart_decoration ==
    /\ Departing("decoration")
    /\ Nothing
    /\ Departed

visit_header ==
    /\ Visiting("header")
    /\ context' = Append(context, Len(body))
    /\ UNCHANGED <<doc, settings, pageBufs, titleBufs, decoBufs, flags, body>>
    /\ Visited

depart_header ==
    /\ Departing("header")
    /\ LET start == Last(context)
           hdr == <<starttag(Cur, "div", "\n", FALSE, <<"header">>, NoAtts)>>
                  \o Since(body, start)
                  \o <<"\n<hr class=\"header\"/>\n</div>\n">>
       IN  /\ body_prefix' = body_prefix \o hdr
           /\ header' = header \o hdr
           /\ body' = SubSeq(body, 1, start)
    /\ context' = Front(context)
    /\ UNCHANGED <<doc, settings, titleBufs, footer, flags>>
    /\ UNCHANGED <<head_prefix, head, meta, stylesheet, body_suffix,
                   html_prolog, html_head, html_body, fragment, docinfo>>
    /\ Departed

visit_footer ==
    /\ Visiting("footer")
    /\ context' = Append(context, Len(body))
    /\ UNCHANGED <<doc, settings, pageBufs, titleBufs, decoBufs, flags, body>>
    /\ Visited

depart_footer ==
    /\ Departing("footer")
    /\ LET start == Last(context)
           ftr == <<starttag(Cur, "div", "\n", FALSE, <<"footer">>, NoAtts),
                    "<hr class=\"footer\">\n">>
                  \o Since(body, start)
                  \o <<"\n</div>\n">>
       IN  /\ footer' = footer \o ftr
           /\ body_suffix' = ftr \o body_suffix
           /\ body' = SubSeq(body, 1, start)
    /\ context' = Front(context)
    /\ UNCHANGED <<doc, settings, titleBufs, header, flags>>
    /\ UNCHANGED <<head_prefix, head, meta, stylesheet, body_prefix,
                   html_prolog, html_head, html_body, fragment, docinfo>>
    /\ Departed


\* ---- footnotes, citations and their labels

\* node.next_node(descend=False, siblings=True)
NextSibling ==
    IF path # <<>> /\ Last(path) < Len(Par.c) THEN Par.c[Last(path) + 1]
    ELSE NoNode

\* visit_footnote and visit_citation: open the list unless one is open.
visit_note(k, opening) ==
    /\ Visiting(k)
    /\ body' = IF in_footnote_list THEN body ELSE Append(body, opening)
    /\ in_footnote_list' = TRUE
    /\ UNCHANGED <<doc, settings, context, pageBufs, titleBufs, decoBufs>>
    /\ UNCHANGED <<titleFlags, listFlags, sectFlags, tableFlags, mathFlags,
                   textFlags>>
    /\ Visited

\* Whether the list is closed after the current footnote or citation.
ClosesList(k) == NextSibling.k # k

\* depart_footnote and depart_citation.
depart_note(k) ==
    /\ Departing(k)
    /\ body' = body \o <<"</dd>\n">> \o
               (IF ClosesList(k) THEN <<"</dl>\n">> ELSE <<>>)
    /\ in_footnote_list' = IF ClosesList(k) THEN FALSE ELSE in_footnote_list
    /\ UNCHANGED <<doc, settings, context, pageBufs, titleBufs, decoBufs>>
    /\ UNCHANGED <<titleFlags, listFlags, sectFlags, tableFlags, mathFlags,
                   textFlags>>
    /\ Departed

visit_footnote ==
    visit_note("footnote",
               "<dl class=\"footnote " \o settings.footnote_references \o "\">\n")

depart_footnote == depart_note("footnote")

visit_citation == visit_note("citation", "<dl class=\"citation\">\n")

depart_citation == depart_note("citation")

\* The back-link opened by visit_label.
LabelAnchor(backrefs) ==
    IF settings.footnote_backlinks /\ Len(backrefs) = 1
    THEN <<"<a class=\"fn-backref\" href=\"#" \o backrefs[1] \o "\">">>
    ELSE <<>>

\* Back-links numbered as enumerate() counts, from 0.
ZeroBasedBacklinks(backrefs) ==
    IF ~settings.footnote_backlinks THEN <<>>
    ELSE IF Len(backrefs) = 1 THEN <<"</a>">>
    ELSE IF Len(backrefs) > 1
    THEN <<"<span class=\"fn-backref\">("
           \o Join([i \in DOMAIN backrefs |->
                       "<a href=\"#" \o backrefs[i] \o "\">" \o ToString(i - 1) \o "</a>"],
                   ",")
           \o ")</span>">>
    ELSE <<>>

\* The back-link markup appended by depart_label after the label's span.
LabelBacklinks(backrefs) ==
    IF ~settings.footnote_backlinks THEN <<>>
    ELSE IF Len(backrefs) = 1 THEN <<"</a>">>
    ELSE IF Len(backrefs) > 1
    THEN <<"<span class=\"fn-backref\">("
           \o Join([i \in DOMAIN backrefs |->
                       "<a href=\"#" \o backrefs[i] \o "\">" \o ToString(i) \o "</a>"],
                   ",")
           \o ")</span>">>
    ELSE <<>>

visit_label ==
    /\ Visiting("label")
    /\ body' = body
               \o <<starttag(Par, "dt", "", FALSE, <<"label">>, NoAtts),
                    starttag(Cur, "span", "", FALSE,
                             <<IF Par.k = "footnote" THEN settings.footnote_references
                               ELSE "brackets">>, NoAtts)>>
               \o LabelAnchor(Par.a.backrefs)
    /\ OnlyBody
    /\ Visited

depart_label ==
    /\ Departing("label")
    /\ body' = body \o <<"</span>">> \o LabelBacklinks(Par.a.backrefs)
               \o <<"</dt>\n<dd>">>
    /\ OnlyBody
    /\ Departed

\* ---- nodes whose content is already processed

\* nodes.TextElement subclasses among the kinds modelled
TextElementKinds ==
    {"paragraph", "title", "subtitle", "label", "term", "field_name",
     "raw", "comment", "math", "math_block", "generated",
     "substitution_definition", "substitution_reference", "author", "date",
     "reference", "line", "literal"}

\* A test that takes every raw node for HTML.
RawAlways(node) == TRUE

\* 'html' in node.get('format', '').split()
RawIsHtml(node) == "html" \in Range(node.a.format)

visit_raw ==
    /\ Visiting("raw")
    /\ LET t == IF Par.k \in TextElementKinds THEN "span" ELSE "div"
           tagged == Cur.a.classes # <<>>
       IN  body' =
             IF RawIsHtml(Cur)
             THEN body
                  \o (IF tagged THEN <<starttag(Cur, t, "", FALSE, <<>>, NoAtts)>>
                      ELSE <<>>)
                  \o <<Concat(astext(Cur))>>
                  \o (IF tagged THEN <<"</" \o t \o ">">> ELSE <<>>)
             ELSE body
    /\ OnlyBody
    /\ Skipped

\* re.compile('-(?=-)').sub('- ', text)
CommentSub(text) ==
    Concat([i \in DOMAIN text |->
               IF text[i] = "-" /\ i < Len(text) /\ text[i + 1] = "-"
               THEN "- " ELSE text[i]])

visit_comment ==
    /\ Visiting("comment")
    /\ body' = Append(body, "<!-- " \o CommentSub(astext(Cur)) \o " -->\n")
    /\ OnlyBody
    /\ Skipped

visit_substitution_definition ==
    /\ Visiting("substitution_definition")
    /\ Nothing
    /\ Skipped

visit_substitution_reference ==
    /\ Visiting("substitution_reference")
    /\ Nothing
    /\ Raised

RECURSIVE RStrip(_, _)
RStrip(text, ch) ==
    IF text # <<>> /\ Last(text) = ch THEN RStrip(Front(text), ch) ELSE text

visit_generated ==
    /\ Visiting("generated")
    /\ IF "sectnum" \in Range(Cur.a.classes)
       THEN /\ body' = Append(body, "<span class=\"sectnum\">"
                                    \o encode(RStrip(astext(Cur), NBSP))
                                    \o "</span> ")
            /\ OnlyBody
            /\ Skipped
       ELSE /\ Nothing
            /\ Visited

depart_generated ==
    /\ Departing("generated")
    /\ Nothing
    /\ Departed

\* ---- line blocks, literals and references

visit_line_block ==
    /\ Visiting("line_block")
    /\ body' = Append(body, starttag(Cur, "div", "\n", FALSE, <<"line-block">>, NoAtts))
    /\ line_block_nest' = line_block_nest + 1
    /\ UNCHANGED <<doc, settings, context, pageBufs, titleBufs, decoBufs>>
    /\ UNCHANGED <<titleFlags, noteFlags, listFlags, sectFlags, tableFlags, mathFlags>>
    /\ UNCHANGED <<in_mailto, protect_literal_text>>
    /\ Visited

depart_line_block ==
    /\ Departing("line_block")
    /\ line_block_nest' = line_block_nest - 1
    /\ body' = Append(body, "</div>\n")
    /\ UNCHANGED <<doc, settings, context, pageBufs, titleBufs, decoBufs>>
    /\ UNCHANGED <<titleFlags, noteFlags, listFlags, sectFlags, tableFlags, mathFlags>>
    /\ UNCHANGED <<in_mailto, protect_literal_text>>
    /\ Departed

visit_line ==
    /\ Visiting("line")
    /\ Nothing
    /\ Visited

depart_line ==
    /\ Departing("line")
    /\ body' = Append(body, "<br>\n")
    /\ OnlyBody
    /\ Departed

visit_literal ==
    /\ Visiting("literal")
    /\ body' = Append(body, starttag(Cur, "code", "", FALSE,
                                     <<"docutils", "literal">>, NoAtts))
    /\ protect_literal_text' = TRUE
    /\ UNCHANGED <<doc, settings, context, pageBufs, titleBufs, decoBufs>>
    /\ UNCHANGED <<titleFlags, noteFlags, listFlags, sectFlags, tableFlags, mathFlags>>
    /\ UNCHANGED <<in_mailto, line_block_nest>>
    /\ Visited

depart_literal ==
    /\ Departing("literal")
    /\ protect_literal_text' = FALSE
    /\ body' = Append(body, "</code>")
    /\ UNCHANGED <<doc, settings, context, pageBufs, titleBufs, decoBufs>>
    /\ UNCHANGED <<titleFlags, noteFlags, listFlags, sectFlags, tableFlags, mathFlags>>
    /\ UNCHANGED <<in_mailto, line_block_nest>>
    /\ Departed

\* href.startswith('mailto:')
is_mailto(href) == href # <<>> /\ Head(href) = "mailto:"

\* The horizontal alignment visit_reference and visit_image read from the
\* align attribute: its last value among left, right and center.
halign_of(node) ==
    LET hs == SelectSeq(node.a.align, LAMBDA v : v \in {"left", "right", "center"})
    IN  IF hs = <<>> THEN "" ELSE Last(hs)

\* ---- images

\* os.path.splitext(uri)[1]: the extension of the last component, with its dot.
splitext(uri) ==
    IF uri # <<>> /\ Last(uri) \in {".swf", ".SWF", ".png", ".PNG"} THEN Last(uri) ELSE ""

\* get_value_with_unit(value) of a value held as <<number, unit>>.
get_value_with_unit(value) ==
    <<value[1], IF value[2] = "" THEN "px" ELSE value[2]>>

\* units: the width and height attributes an image has.
units_of(node) ==
    [n \in {m \in {"width", "height"} :
               (IF m = "width" THEN node.a.width ELSE node.a.height) # <<>>} |->
        get_value_with_unit(IF n = "width" THEN node.a.width ELSE node.a.height)]

\* atts['width'], atts['height']: the sizes given in pixels, replaced by
\* those of the image file when it was opened.
sizes_of(node, probed) ==
    LET units == units_of(node)
        given == [n \in {m \in DOMAIN units : units[m][2] = "px"} |-> units[n][1]]
    IN  IF probed = <<>> THEN given
        ELSE ("width" :> probed[1]) @@ ("height" :> probed[2])

\* Whether visit_image tries to open the image file.
probes(node) ==
    LET units == units_of(node)
    IN  /\ node.a.scale # -1
        /\ ~(\A m \in {"width", "height"} : m \in DOMAIN units /\ units[m][2] = "px")
        /\ settings.file_insertion_enabled

\* A style that states the full width whatever the scale is.
full_width(styles, percent) ==
    ("max-width" :> "100%") @@ ("height" :> "auto") @@ styles

\* The missing one of width and height is automatic; with neither, the
\* width is limited to `percent` per cent.
fallback(styles, percent) ==
    IF "width" \in DOMAIN styles /\ "height" \notin DOMAIN styles
    THEN ("height" :> "auto") @@ styles
    ELSE IF "width" \notin DOMAIN styles /\ "height" \in DOMAIN styles
    THEN ("width" :> "auto") @@ styles
    ELSE IF "width" \notin DOMAIN styles /\ "height" \notin DOMAIN styles
    THEN ("max-width" :> (ToString(percent) \o "%")) @@ ("height" :> "auto") @@ styles
    ELSE styles

\* valign: the last value of the align attribute among top, bottom, middle.
valign_of(node) ==
    LET vs == SelectSeq(node.a.align, LAMBDA v : v \in {"top", "bottom", "middle"})
    IN  IF vs = <<>> THEN "" ELSE Last(vs)

\* styles as visit_image leaves it, `sizes` being atts['width'], atts['height'].
image_styles(node, sizes) ==
    LET units == units_of(node)
        scale == node.a.scale
        scaled == [n \in DOMAIN units |->
                      ToString((units[n][1] * scale) \div 100) \o units[n][2]]
        from_sizes == [n \in DOMAIN sizes |->
                          ToString((sizes[n] * scale) \div 100) \o "px"]
        sized == IF scale # -1
                 THEN IF "width" \notin DOMAIN scaled /\ "height" \in DOMAIN scaled
                      THEN from_sizes @@ scaled ELSE scaled
                 ELSE [n \in DOMAIN units |-> ToString(units[n][1]) \o units[n][2]]
    IN  ("vertical-align" :> (IF valign_of(node) # "" THEN valign_of(node) ELSE "bottom"))
        @@ fallback(sized, IF scale # -1 THEN scale ELSE 100)

\* `probed` is the size of the image file, <<>> when it was not opened;
\* `items` is the order in which the styles dictionary is iterated.
visit_image ==
    /\ Visiting("image")
    /\ UNCHANGED <<doc, settings, pageBufs, titleBufs, decoBufs, flags>>
    /\ \E probed \in IF probes(Cur) THEN {<<>>, <<200, 100>>} ELSE {<<>>} :
       \E items \in Orders(image_styles(Cur, sizes_of(Cur, probed))) :
          LET uri == Concat(Cur.a.uri)
              ext == Lower(splitext(Cur.a.uri))
              sizes == sizes_of(Cur, probed)
              inline == Par.k \in {"reference", "figure"}
              suffix == IF inline THEN "" ELSE "\n"
              halign == halign_of(Cur)
              wrapper ==
                  IF inline THEN <<>>
                  ELSE IF halign \in {"left", "right"}
                  THEN <<"<div class=\"align-" \o halign \o "\" style=\"height:auto\">\n">>
                  ELSE IF halign = "center"
                  THEN <<"<div style=\"height:auto;margin:16px auto;display:table\">\n">>
                  ELSE <<"<div style=\"height:auto\">\n">>
              style == Concat([i \in DOMAIN items |->
                                  items[i][1] \o ":" \o items[i][2] \o ";"])
              atts == ("style" :> style) @@ [n \in DOMAIN sizes |-> ToString(sizes[n])]
          IN  /\ context' = Append(context, IF inline THEN "" ELSE "</div>\n")
              /\ body' = body \o wrapper \o
                   <<IF ext = "swf"
                     THEN starttag(Cur, "object", "\n", FALSE, <<>>,
                                   ("data" :> uri)
                                   @@ ("type" :> "application/x-shockwave-flash") @@ atts)
                          \o "<param name=\"movie\" value=\"" \o uri \o "\">"
                          \o "<embed src=\"%s\">" \o "</embed></object>" \o suffix
                     ELSE emptytag(Cur, "img", suffix, <<>>,
                                   ("src" :> uri)
                                   @@ ("alt" :> (IF Cur.a.alt # <<>> THEN Concat(Cur.a.alt)
                                                 ELSE uri))
                                   @@ atts)>>
    /\ Visited

depart_image ==
    /\ Departing("image")
    /\ body' = Append(body, Last(context))
    /\ context' = pop(context)
    /\ BodyAndContext
    /\ Departed

\* A reference with neither refuri nor refid fails the assertion.
visit_reference ==
    /\ Visiting("reference")
    /\ UNCHANGED <<doc, settings, pageBufs, titleBufs, decoBufs>>
    /\ UNCHANGED <<titleFlags, noteFlags, listFlags, sectFlags, tableFlags, mathFlags>>
    /\ UNCHANGED <<protect_literal_text, line_block_nest>>
    /\ IF Cur.a.refuri = <<>> /\ Cur.a.refid = ""
       THEN UNCHANGED <<body, context, in_mailto>> /\ Raised
       ELSE LET external == Cur.a.refuri # <<>>
                cloaked == /\ external /\ settings.cloak_email_addresses
                           /\ is_mailto(Cur.a.refuri)
                href == IF cloaked THEN Concat(cloak_mailto(Cur.a.refuri))
                        ELSE IF external THEN Concat(Cur.a.refuri)
                        ELSE "#" \o Cur.a.refid
                image == /\ Len(Cur.c) = 1 /\ Cur.c[1].k = "image"
                         /\ Par.k # "figure"
                halign == IF image THEN halign_of(Cur.c[1]) ELSE ""
                wrapper ==
                    IF ~image THEN <<>>
                    ELSE IF halign = "center"
                    THEN <<"<div style=\"height:auto;margin:16px auto;display:table\">\n">>
                    ELSE IF halign \in {"left", "right"}
                    THEN <<"<div class=\"align-" \o halign
                           \o "\" style=\"height:auto\">\n">>
                    ELSE IF Par.k \notin TextElementKinds
                    THEN <<"<div style=\"height:auto\">\n">>
                    ELSE <<>>
            IN  /\ in_mailto' = (cloaked \/ in_mailto)
                /\ context' = Append(context,
                                     IF wrapper # <<>> THEN "</a></div>" ELSE "</a>")
                /\ body' = body \o wrapper
                     \o <<starttag(Cur, "a", "", FALSE,
                                   <<"reference",
                                     IF external THEN "external" ELSE "internal">>
                                   \o (IF image THEN <<"image-reference">> ELSE <<>>),
                                   IF image
                                   THEN ("href" :> href) @@ ("style" :> "display:inline-block")
                                   ELSE "href" :> href)>>
                /\ Visited

depart_reference ==
    /\ Departing("reference")
    /\ body' = Append(body, Last(context))
               \o (IF Par.k \notin TextElementKinds THEN <<"\n">> ELSE <<>>)
    /\ context' = pop(context)
    /\ in_mailto' = FALSE
    /\ UNCHANGED <<doc, settings, pageBufs, titleBufs, decoBufs>>
    /\ UNCHANGED <<titleFlags, noteFlags, listFlags, sectFlags, tableFlags, mathFlags>>
    /\ UNCHANGED <<protect_literal_text, line_block_nest>>
    /\ Departed

\* ---- math

MathModes == {"mathml", "html", "mathjax", "latex"}

\* tags[math_output]: (block, inline, class-arguments)
MathTags(mode) ==
    CASE mode = "mathml" -> <<"div", "", <<>>>>
      [] mode = "html" -> <<"div", "span", <<"formula">>>>
      [] mode = "mathjax" -> <<"div", "span", <<"math">>>>
      [] mode = "latex" -> <<"pre", "tt", <<"math">>>>

\* wrappers[math_output] applied to the math code: in-line or display
\* delimiters for the html and mathjax modes, none for the others.
MathWrap(mode, math_env, code) ==
    IF mode \in {"html", "mathjax"}
    THEN IF math_env # ""
         THEN <<"\\begin{" \o math_env \o "}\n">> \o code
              \o <<"\n\\end{" \o math_env \o "}">>
         ELSE IF mode = "html" THEN <<"$">> \o code \o <<"$">>
              ELSE <<"\\(">> \o code \o <<"\\)">>
    ELSE code

MathjaxUrl ==
    "http://cdn.mathjax.org/mathjax/latest/MathJax.js?config=TeX-AMS-MML_HTMLorMML"

\* A fallback to the default mode of the html4css1 writer.
fallback_html(output) == IF output \in MathModes THEN output ELSE "html"

\* self.math_output once visit_math has checked it: an unsupported format
\* falls back to "latex".
math_mode(output) == IF output \in MathModes THEN output ELSE "latex"

\* A math_header that grows with every formula.
MathHeaderAgain(mode) ==
    IF mode = "mathjax"
    THEN math_header \o
         <<"<script type=\"text/javascript\" src=\""
           \o (IF math_output_options # <<>> THEN math_output_options[1]
               ELSE MathjaxUrl)
           \o "\"></script>\n">>
    ELSE math_header

\* The math_header visit_math leaves for the mode it renders in.
MathHeader(mode) ==
    IF mode = "mathjax" /\ math_header = <<>>
    THEN <<"<script type=\"text/javascript\" src=\""
           \o (IF math_output_options # <<>> THEN math_output_options[1]
               ELSE MathjaxUrl)
           \o "\"></script>\n">>
    ELSE IF mode = "html" /\ math_output_options # <<>> /\ math_header = <<>>
    THEN <<"<style>\n\n" \o math_output_options[1] \o "\n</style>\n">>
    ELSE math_header

\* pick_math_environment(node.astext())
pick_math_environment(code) ==
    IF "\\\\" \in Range(code) THEN "align*" ELSE "equation*"

\* visit_math(node, math_env): `parsed` is whether parse_latex_math accepts
\* the code (mathml mode).
visit_math_env(math_env, parsed) ==
    LET supported == math_output \in MathModes
        mode == math_mode(math_output)
        tag == IF math_env # "" THEN MathTags(mode)[1] ELSE MathTags(mode)[2]
        clsarg == MathTags(mode)[3]
        wrapped == MathWrap(mode, math_env, astext(Cur))
        math_code == CASE mode \in {"latex", "mathjax"} -> encode(wrapped)
                       [] mode = "html" -> "<math2html>" \o Concat(wrapped) \o "</math2html>"
                       [] mode = "mathml" -> "<math>" \o Concat(wrapped) \o "</math>"
        failed == mode = "mathml" /\ ~parsed
    IN  /\ math_output' = mode
        /\ reported' = (IF supported THEN reported
                        ELSE Append(reported, "math-output format \"" \o math_output
                                    \o "\" not supported falling back to \"latex\""))
                       \o (IF failed THEN <<"SyntaxError">> ELSE <<>>)
        /\ math_header' = MathHeader(mode)
        /\ body' =
             IF failed
             THEN body
                  \o <<"<div class=\"system-message\">\n",
                       "<p class=\"system-message-title\">",
                       "System Message: ERROR/3 (<span class=\"docutils literal\">source</span>)</p>\n",
                       starttag(Cur, "p", "\n", FALSE, <<>>, NoAtts),
                       "SyntaxError",
                       "</p>\n",
                       starttag(Cur, "pre", "\n", FALSE, <<"literal-block">>, NoAtts),
                       encode(wrapped),
                       "\n</pre>\n",
                       "</div>\n">>
             ELSE body
                  \o (IF tag # ""
                      THEN <<starttag(Cur, tag, IF math_env # "" THEN "\n" ELSE "",
                                      FALSE, clsarg, NoAtts)>>
                      ELSE <<>>)
                  \o <<math_code>>
                  \o (IF math_env # "" THEN <<"\n">> ELSE <<>>)
                  \o (IF tag # "" THEN <<"</" \o tag \o ">">> ELSE <<>>)
                  \o (IF math_env # "" THEN <<"\n">> ELSE <<>>)
        /\ UNCHANGED <<doc, settings, context, pageBufs, titleBufs, decoBufs>>
        /\ UNCHANGED <<math_output_options>>
        /\ UNCHANGED <<titleFlags, noteFlags, listFlags, sectFlags, tableFlags,
                       textFlags>>
        /\ Skipped

visit_math ==
    /\ Visiting("math")
    /\ \E parsed \in BOOLEAN : visit_math_env("", parsed)

visit_math_block ==
    /\ Visiting("math_block")
    /\ \E parsed \in BOOLEAN :
          visit_math_env(pick_math_environment(astext(Cur)), parsed)

\* ---- SimpleListChecker and is_compactable

\* The node kinds SimpleListChecker binds to ignore_node, pass_node and
\* visit_list_item; every other kind gets default_visit.
IgnoredKinds ==
    {"Text", "paragraph", "author", "copyright", "date", "organization",
     "status", "term", "field_name", "comment", "substitution_definition",
     "target"}

PassedKinds ==
    {"bullet_list", "enumerated_list", "docinfo", "contact", "definition_list",
     "definition_list_item", "classifier", "field_list", "field"}

ItemKinds ==
    {"list_item", "authors", "address", "version", "definition", "field_body"}

\* Subclasses of nodes.Invisible.
Invisible == {"comment", "substitution_definition", "target", "pending"}

\* A check of the number of visible children that keeps a trailing list.
checker_keeps_list(node) ==
    Len(SelectSeq(node.c, LAMBDA child : child.k \notin {"comment"})) <= 1

\* SimpleListChecker.visit_list_item returns (rather than raising NodeFound).
checker_visit_list_item(node) ==
    LET children == SelectSeq(node.c, LAMBDA child : child.k \notin Invisible)
        popped == IF /\ children # <<>>
                     /\ Head(children).k = "paragraph"
                     /\ Last(children).k \in {"bullet_list", "enumerated_list",
                                              "field_list"}
                  THEN Front(children) ELSE children
    IN  Len(popped) <= 1

\* node.walk(SimpleListChecker) raises nodes.NodeFound.
RECURSIVE NodeFound(_)
NodeFound(node) ==
    CASE node.k \in IgnoredKinds -> FALSE
      [] node.k \in PassedKinds -> \E i \in DOMAIN node.c : NodeFound(node.c[i])
      [] node.k \in ItemKinds ->
            \/ ~checker_visit_list_item(node)
            \/ \E i \in DOMAIN node.c : NodeFound(node.c[i])
      [] OTHER -> TRUE

\* The class arguments tested in the other order, and the table of contents
\* tested before the settings.
open_before_compact(node) ==
    IF "open" \in Range(node.a.classes) THEN FALSE
    ELSE IF "compact" \in Range(node.a.classes) THEN TRUE
    ELSE IF topic_classes = <<"contents">> THEN TRUE
    ELSE IF node.k \in {"field_list", "definition_list"}
            /\ ~settings.compact_field_lists THEN FALSE
    ELSE IF node.k \in {"enumerated_list", "bullet_list"}
            /\ ~settings.compact_lists THEN FALSE
    ELSE ~NodeFound(node)

is_compactable(node) ==
    IF "compact" \in Range(node.a.classes) THEN TRUE
    ELSE IF "open" \in Range(node.a.classes) THEN FALSE
    ELSE IF node.k \in {"field_list", "definition_list"}
            /\ ~settings.compact_field_lists THEN FALSE
    ELSE IF node.k \in {"enumerated_list", "bullet_list"}
            /\ ~settings.compact_lists THEN FALSE
    ELSE IF topic_classes = <<"contents">> THEN TRUE
    ELSE ~NodeFound(node)

\* ---- lists

\* atts['class'] of a bullet list that forgets the enclosing list.
SimpleClassAgain(simple, old_compact_simple) ==
    IF simple THEN <<"simple">> ELSE <<>>

\* atts['class'] of a bullet list: 'simple' unless the enclosing list is.
SimpleClass(simple, old_compact_simple) ==
    IF simple /\ ~old_compact_simple THEN <<"simple">> ELSE <<>>

visit_bullet_list ==
    /\ Visiting("bullet_list")
    /\ context' = Append(context, [compact_simple |-> compact_simple,
                                   compact_p |-> compact_p])
    /\ compact_p' = "None"
    /\ compact_simple' = is_compactable(Cur)
    /\ body' = Append(body,
                      starttag(Cur, "ul", "\n", FALSE,
                               SimpleClass(compact_simple', compact_simple), NoAtts))
    /\ UNCHANGED <<doc, settings, pageBufs, titleBufs, decoBufs, topic_classes>>
    /\ UNCHANGED <<titleFlags, noteFlags, sectFlags, tableFlags, mathFlags,
                   textFlags>>
    /\ Visited

depart_bullet_list ==
    /\ Departing("bullet_list")
    /\ UNCHANGED <<doc, settings, pageBufs, titleBufs, decoBufs, topic_classes>>
    /\ UNCHANGED <<titleFlags, noteFlags, sectFlags, tableFlags, mathFlags,
                   textFlags>>
    /\ IF context # <<>> /\ DOMAIN Last(context) = {"compact_simple", "compact_p"}
       THEN /\ compact_simple' = Last(context).compact_simple
            /\ compact_p' = Last(context).compact_p
            /\ context' = pop(context)
            /\ body' = Append(body, "</ul>\n")
            /\ Departed
       ELSE /\ UNCHANGED <<compact_simple, compact_p, context, body>>
            /\ Raised

visit_list_item ==
    /\ Visiting("list_item")
    /\ body' = Append(body, starttag(Cur, "li", "", FALSE, <<>>, NoAtts))
    /\ OnlyBody
    /\ Visited

depart_list_item ==
    /\ Departing("list_item")
    /\ body' = Append(body, "</li>\n")
    /\ OnlyBody
    /\ Departed

visit_enumerated_list ==
    /\ Visiting("enumerated_list")
    /\ body' = Append(body,
            starttag(Cur, "ol", "\n", FALSE,
                     (IF Cur.a.enumtype # "" THEN <<Cur.a.enumtype>> ELSE <<>>)
                     \o (IF is_compactable(Cur) THEN <<"simple">> ELSE <<>>),
                     IF Cur.a.start # "" THEN "start" :> Cur.a.start ELSE NoAtts))
    /\ OnlyBody
    /\ Visited

depart_enumerated_list ==
    /\ Departing("enumerated_list")
    /\ body' = Append(body, "</ol>\n")
    /\ OnlyBody
    /\ Departed

visit_field_list ==
    /\ Visiting("field_list")
    /\ body' = Append(body,
            starttag(Cur, "dl", "\n", FALSE,
                     <<"field-list">>
                     \o (IF is_compactable(Cur) THEN <<"simple">> ELSE <<>>),
                     NoAtts))
    /\ OnlyBody
    /\ Visited

depart_field_list ==
    /\ Departing("field_list")
    /\ body' = Append(body, "</dl>\n")
    /\ OnlyBody
    /\ Departed

visit_field ==
    /\ Visiting("field")
    /\ Nothing
    /\ Visited

depart_field ==
    /\ Departing("field")
    /\ Nothing
    /\ Departed

\* CLASS=''.join(node.parent['classes'])
JoinedClasses(node) ==
    IF node.a.classes = <<>> THEN <<>> ELSE <<Concat(node.a.classes)>>

visit_field_name ==
    /\ Visiting("field_name")
    /\ body' = Append(body, starttag(Cur, "dt", "", FALSE, JoinedClasses(Par), NoAtts))
    /\ OnlyBody
    /\ Visited

depart_field_name ==
    /\ Departing("field_name")
    /\ body' = Append(body, "</dt>\n")
    /\ OnlyBody
    /\ Departed

visit_field_body ==
    /\ Visiting("field_body")
    /\ body' = Append(body, starttag(Cur, "dd", "", FALSE, JoinedClasses(Par), NoAtts))
    /\ OnlyBody
    /\ Visited

depart_field_body ==
    /\ Departing("field_body")
    /\ body' = Append(body, "</dd>\n")
    /\ OnlyBody
    /\ Departed

visit_definition_list ==
    /\ Visiting("definition_list")
    /\ UNCHANGED <<settings, context, pageBufs, titleBufs, decoBufs, flags>>
    /\ LET node == IF is_compactable(Cur)
                   THEN [Cur EXCEPT !.a.classes = Append(@, "simple")] ELSE Cur
       IN  /\ doc' = ReplaceAt(doc, path, node)
           /\ body' = Append(body, starttag(node, "dl", "\n", FALSE, <<>>, NoAtts))
    /\ Visited

depart_definition_list ==
    /\ Departing("definition_list")
    /\ body' = Append(body, "</dl>\n")
    /\ OnlyBody
    /\ Departed

visit_definition_list_item ==
    /\ Visiting("definition_list_item")
    /\ UNCHANGED <<settings, context, pageBufs, titleBufs, decoBufs, flags, body>>
    /\ IF Cur.c = <<>>
       THEN doc' = doc /\ Raised
       ELSE /\ doc' = ReplaceAt(doc, path \o <<1>>,
                         [Cur.c[1] EXCEPT !.a.classes = Cur.a.classes \o @,
                                          !.a.ids = Cur.a.ids \o @])
            /\ Visited

depart_definition_list_item ==
    /\ Departing("definition_list_item")
    /\ Nothing
    /\ Departed

visit_term ==
    /\ Visiting("term")
    /\ body' = Append(body, starttag(Cur, "dt", "", FALSE, <<>>, NoAtts))
    /\ OnlyBody
    /\ Visited

depart_term ==
    /\ Departing("term")
    /\ Nothing
    /\ Departed

visit_definition ==
    /\ Visiting("definition")
    /\ body' = body \o <<"</dt>\n", starttag(Cur, "dd", "", FALSE, <<>>, NoAtts)>>
    /\ OnlyBody
    /\ Visited

depart_definition ==
    /\ Departing("definition")
    /\ body' = Append(body, "</dd>\n")
    /\ OnlyBody
    /\ Departed

visit_block_quote ==
    /\ Visiting("block_quote")
    /\ body' = Append(body, starttag(Cur, "blockquote", "\n", FALSE, <<>>, NoAtts))
    /\ OnlyBody
    /\ Visited

depart_block_quote ==
    /\ Departing("block_quote")
    /\ body' = Append(body, "</blockquote>\n")
    /\ OnlyBody
    /\ Departed

\* ---- docinfo

\* self.language.labels[name] for the language code "en"
Labels(name) ==
    CASE name = "author" -> "Author"
      [] name = "date" -> "Date"
      [] name = "version" -> "Version"
      [] OTHER -> name

\* A docinfo list opened in the docinfo buffer.
docinfo_in_own_buffer ==
    /\ Visiting("docinfo")
    /\ docinfo' = Append(docinfo, starttag(Cur, "dl", "\n", FALSE, <<"docinfo">>, NoAtts))
    /\ UNCHANGED <<doc, settings, context, titleBufs, decoBufs, flags, body>>
    /\ UNCHANGED <<head_prefix, head, meta, stylesheet, body_prefix, body_suffix,
                   html_prolog, html_head, html_body, fragment>>
    /\ Visited

visit_docinfo ==
    /\ Visiting("docinfo")
    /\ body' = Append(body,
            starttag(Cur, "dl", "\n", FALSE,
                     <<"docinfo">>
                     \o (IF is_compactable(Cur) THEN <<"simple">> ELSE <<>>),
                     NoAtts))
    /\ OnlyBody
    /\ Visited

depart_docinfo ==
    /\ Departing("docinfo")
    /\ body' = Append(body, "</dl>\n")
    /\ OnlyBody
    /\ Departed

\* What visit_docinfo_item(node, name) appends to the body.
visit_docinfo_item(node, name) ==
    <<"<dt class=\"" \o name \o "\">" \o Labels(name) \o "</dt>\n",
      starttag(node, "dd", "", FALSE, <<name>>, NoAtts)>>

\* add_meta(tag) of the meta tag of a docinfo item
meta_tag(node, name) ==
    "<meta name=\"" \o name \o "\" content=\"" \o attval(astext(node)) \o "\">\n"

visit_author ==
    /\ Visiting("author")
    /\ UNCHANGED <<doc, settings, context, titleBufs, decoBufs, flags>>
    /\ UNCHANGED <<head_prefix, stylesheet, body_prefix, body_suffix,
                   html_prolog, html_head, html_body, fragment, docinfo>>
    /\ IF Par.k # "authors"
       THEN /\ meta' = Append(meta, meta_tag(Cur, "author"))
            /\ head' = Append(head, meta_tag(Cur, "author"))
            /\ body' = body \o visit_docinfo_item(Cur, "author") \o <<"<p>">>
       ELSE /\ UNCHANGED <<meta, head>>
            /\ body' = Append(body, "<p>")
    /\ Visited

depart_author ==
    /\ Departing("author")
    /\ body' = body \o <<"</p>", IF Par.k = "authors" THEN "\n" ELSE "</dd>\n">>
    /\ OnlyBody
    /\ Departed

visit_date ==
    /\ Visiting("date")
    /\ body' = body \o visit_docinfo_item(Cur, "date")
    /\ OnlyBody
    /\ Visited

depart_date ==
    /\ Departing("date")
    /\ body' = Append(body, "</dd>\n")
    /\ OnlyBody
    /\ Departed

\* ---- tables

visit_table ==
    /\ Visiting("table")
    /\ body' = Append(body, starttag(Cur, "table", "\n", FALSE,
                                     settings.table_style, NoAtts))
    /\ OnlyBody
    /\ Visited

depart_table ==
    /\ Departing("table")
    /\ body' = Append(body, "</table>\n")
    /\ OnlyBody
    /\ Departed

visit_tgroup ==
    /\ Visiting("tgroup")
    /\ body' = Append(body, starttag(Cur, "colgroup", "\n", FALSE, <<>>, NoAtts))
    /\ context' = Append(context, "</colgroup>\n")
    /\ stubs' = (path :> <<>>) @@ stubs
    /\ UNCHANGED <<doc, settings, pageBufs, titleBufs, decoBufs, colspecs, column>>
    /\ UNCHANGED <<titleFlags, noteFlags, listFlags, sectFlags, mathFlags,
                   textFlags>>
    /\ Visited

depart_tgroup ==
    /\ Departing("tgroup")
    /\ Nothing
    /\ Departed

\* A colspec whose parent has no stubs attribute raises AttributeError.
visit_colspec ==
    /\ Visiting("colspec")
    /\ UNCHANGED <<doc, settings, context, pageBufs, titleBufs, decoBufs, body,
                   column>>
    /\ UNCHANGED <<titleFlags, noteFlags, listFlags, sectFlags, mathFlags,
                   textFlags>>
    /\ colspecs' = Append(colspecs, Cur)
    /\ IF path # <<>> /\ Front(path) \in DOMAIN stubs
       THEN /\ stubs' = [stubs EXCEPT ![Front(path)] = Append(@, Cur.a.stub)]
            /\ Visited
       ELSE /\ stubs' = stubs
            /\ Raised

depart_colspec ==
    /\ Departing("colspec")
    /\ Nothing
    /\ Departed

RECURSIVE Sum(_)
Sum(ns) == IF ns = <<>> THEN 0 ELSE Head(ns) + Sum(Tail(ns))

\* The percentage truncated instead of rounded.
Truncated(colwidth, width) == (100 * colwidth) \div width

\* int(colwidth * 100.0 / width + 0.5)
Percent(colwidth, width) == (200 * colwidth + width) \div (2 * width)

\* The <col> tags write_colspecs appends; it divides by the total width.
write_colspecs ==
    LET width == Sum([i \in DOMAIN colspecs |-> colspecs[i].a.colwidth])
    IN  [i \in DOMAIN colspecs |->
            emptytag(colspecs[i], "col", "\n", <<>>,
                     "style" :> ("width:" \o ToString(Percent(colspecs[i].a.colwidth, width))
                                 \o "%"))]

write_colspecs_fails ==
    colspecs # <<>> /\ Sum([i \in DOMAIN colspecs |-> colspecs[i].a.colwidth]) = 0

visit_thead ==
    /\ Visiting("thead")
    /\ UNCHANGED <<doc, settings, pageBufs, titleBufs, decoBufs, stubs, column>>
    /\ UNCHANGED <<titleFlags, noteFlags, listFlags, sectFlags, mathFlags,
                   textFlags>>
    /\ IF write_colspecs_fails
       THEN UNCHANGED <<body, colspecs, context>> /\ Raised
       ELSE IF context = <<>>
       THEN /\ body' = body \o write_colspecs
            /\ colspecs' = <<>>
            /\ context' = context
            /\ Raised
       ELSE /\ body' = body \o write_colspecs
                       \o <<Last(context), starttag(Cur, "thead", "\n", FALSE, <<>>, NoAtts)>>
            /\ colspecs' = <<>>
            /\ context' = Append(pop(context), "")
            /\ Visited

depart_thead ==
    /\ Departing("thead")
    /\ body' = Append(body, "</thead>\n")
    /\ OnlyBody
    /\ Departed

\* A body that leaves the column specs pending once it has written them.
tbody_keeps_colspecs ==
    /\ Visiting("tbody")
    /\ UNCHANGED <<doc, settings, pageBufs, titleBufs, decoBufs, stubs, column>>
    /\ UNCHANGED <<titleFlags, noteFlags, listFlags, sectFlags, mathFlags,
                   textFlags>>
    /\ body' = body \o write_colspecs
                \o <<Last(context), starttag(Cur, "tbody", "\n", FALSE, <<>>, NoAtts)>>
    /\ colspecs' = colspecs
    /\ context' = pop(context)
    /\ Visited

visit_tbody ==
    /\ Visiting("tbody")
    /\ UNCHANGED <<doc, settings, pageBufs, titleBufs, decoBufs, stubs, column>>
    /\ UNCHANGED <<titleFlags, noteFlags, listFlags, sectFlags, mathFlags,
                   textFlags>>
    /\ IF write_colspecs_fails
       THEN UNCHANGED <<body, colspecs, context>> /\ Raised
       ELSE IF context = <<>>
       THEN /\ body' = body \o write_colspecs
            /\ colspecs' = <<>>
            /\ context' = context
            /\ Raised
       ELSE /\ body' = body \o write_colspecs
                       \o <<Last(context), starttag(Cur, "tbody", "\n", FALSE, <<>>, NoAtts)>>
            /\ colspecs' = <<>>
            /\ context' = pop(context)
            /\ Visited

depart_tbody ==
    /\ Departing("tbody")
    /\ body' = Append(body, "</tbody>\n")
    /\ OnlyBody
    /\ Departed

visit_row ==
    /\ Visiting("row")
    /\ body' = Append(body, starttag(Cur, "tr", "", FALSE, <<>>, NoAtts))
    /\ column' = (path :> 0) @@ [p \in DOMAIN column \ {path} |-> column[p]]
    /\ UNCHANGED <<doc, settings, context, pageBufs, titleBufs, decoBufs,
                   colspecs, stubs>>
    /\ UNCHANGED <<titleFlags, noteFlags, listFlags, sectFlags, mathFlags,
                   textFlags>>
    /\ Visited

depart_row ==
    /\ Departing("row")
    /\ body' = Append(body, "</tr>\n")
    /\ OnlyBody
    /\ Departed

\* node.parent.parent.parent.stubs[node.parent.column] can be evaluated.
EntryInTable ==
    /\ Len(path) >= 3
    /\ Front(path) \in DOMAIN column
    /\ SubSeq(path, 1, Len(path) - 3) \in DOMAIN stubs
    /\ column[Front(path)] < Len(stubs[SubSeq(path, 1, Len(path) - 3)])

\* Span attributes that state the stored count itself.
spans_without_origin(node) ==
    (IF node.a.morerows # -1
     THEN "rowspan" :> ToString(node.a.morerows) ELSE NoAtts)
    @@ (IF node.a.morecols # -1
        THEN "colspan" :> ToString(node.a.morecols) ELSE NoAtts)

\* atts['rowspan'] and atts['colspan'] of visit_entry.
entry_spans(node) ==
    (IF node.a.morerows # -1
     THEN "rowspan" :> ToString(node.a.morerows + 1) ELSE NoAtts)
    @@ (IF node.a.morecols # -1
        THEN "colspan" :> ToString(node.a.morecols + 1) ELSE NoAtts)

\* A cursor that ignores the column span.
one_column(node) == 1

\* What visit_entry adds to node.parent.column.
entry_columns(node) ==
    1 + (IF node.a.morecols # -1 THEN node.a.morecols ELSE 0)

visit_entry ==
    /\ Visiting("entry")
    /\ UNCHANGED <<doc, settings, pageBufs, titleBufs, decoBufs, colspecs, stubs>>
    /\ UNCHANGED <<titleFlags, noteFlags, listFlags, sectFlags, mathFlags,
                   textFlags>>
    /\ IF EntryInTable
       THEN LET row == Front(path)
                stub == stubs[SubSeq(path, 1, Len(path) - 3)][column[row] + 1]
                inhead == NodeAt(doc, Front(row)).k = "thead"
                cls == (IF inhead THEN <<"head">> ELSE <<>>)
                       \o (IF stub THEN <<"stub">> ELSE <<>>)
                tagname == IF cls # <<>> THEN "th" ELSE "td"
            IN  /\ column' = [column EXCEPT ![row] = @ + entry_columns(Cur)]
                /\ body' = Append(body, starttag(Cur, tagname, "", FALSE, cls,
                                                 entry_spans(Cur)))
                /\ context' = Append(context, "</" \o tagname \o ">\n")
                /\ Visited
       ELSE /\ UNCHANGED <<column, body, context>>
            /\ Raised

depart_entry ==
    /\ Departing("entry")
    /\ UNCHANGED <<doc, settings, pageBufs, titleBufs, decoBufs, flags>>
    /\ IF context # <<>>
       THEN /\ body' = Append(body, Last(context))
            /\ context' = pop(context)
            /\ Departed
       ELSE /\ UNCHANGED <<body, context>>
            /\ Raised

\* ---- sections and topics

visit_section ==
    /\ Visiting("section")
    /\ section_level' = section_level + 1
    /\ body' = Append(body, starttag(Cur, "section", "", FALSE, <<>>, NoAtts))
    /\ UNCHANGED <<doc, settings, context, pageBufs, titleBufs, decoBufs>>
    /\ UNCHANGED <<titleFlags, noteFlags, listFlags, tableFlags, mathFlags,
                   textFlags>>
    /\ Visited

depart_section ==
    /\ Departing("section")
    /\ section_level' = section_level - 1
    /\ body' = Append(body, "</section>\n")
    /\ UNCHANGED <<doc, settings, context, pageBufs, titleBufs, decoBufs>>
    /\ UNCHANGED <<titleFlags, noteFlags, listFlags, tableFlags, mathFlags,
                   textFlags>>
    /\ Departed

visit_topic ==
    /\ Visiting("topic")
    /\ body' = Append(body, starttag(Cur, "div", "\n", FALSE, <<"topic">>, NoAtts))
    /\ topic_classes' = Cur.a.classes
    /\ UNCHANGED <<doc, settings, context, pageBufs, titleBufs, decoBufs>>
    /\ UNCHANGED <<compact_simple, compact_p>>
    /\ UNCHANGED <<titleFlags, noteFlags, sectFlags, tableFlags, mathFlags,
                   textFlags>>
    /\ Visited

depart_topic ==
    /\ Departing("topic")
    /\ body' = Append(body, "</div>\n")
    /\ topic_classes' = <<>>
    /\ UNCHANGED <<doc, settings, context, pageBufs, titleBufs, decoBufs>>
    /\ UNCHANGED <<compact_simple, compact_p>>
    /\ UNCHANGED <<titleFlags, noteFlags, sectFlags, tableFlags, mathFlags,
                   textFlags>>
    /\ Departed

\* ------------------------------------------------------------------------
\* Specification
\* ------------------------------------------------------------------------
Next ==
    \/ visit_document \/ depart_document
    \/ visit_Text \/ depart_Text
    \/ visit_paragraph \/ depart_paragraph
    \/ visit_title \/ depart_title
    \/ visit_subtitle \/ depart_subtitle
    \/ visit_decoration \/ depart_decoration
    \/ visit_header \/ depart_header
    \/ visit_footer \/ depart_footer
    \/ visit_footnote \/ depart_footnote
    \/ visit_citation \/ depart_citation
    \/ visit_label \/ depart_label
    \/ visit_raw
    \/ visit_comment
    \/ visit_substitution_definition
    \/ visit_substitution_reference
    \/ visit_generated \/ depart_generated
    \/ visit_line_block \/ depart_line_block
    \/ visit_line \/ depart_line
    \/ visit_literal \/ depart_literal
    \/ visit_reference \/ depart_reference
    \/ visit_image \/ depart_image
    \/ visit_math
    \/ visit_math_block
    \/ visit_bullet_list \/ depart_bullet_list
    \/ visit_list_item \/ depart_list_item
    \/ visit_enumerated_list \/ depart_enumerated_list
    \/ visit_field_list \/ depart_field_list
    \/ visit_field \/ depart_field
    \/ visit_field_name \/ depart_field_name
    \/ visit_field_body \/ depart_field_body
    \/ visit_definition_list \/ depart_definition_list
    \/ visit_definition_list_item \/ depart_definition_list_item
    \/ visit_term \/ depart_term
    \/ visit_definition \/ depart_definition
    \/ visit_block_quote \/ depart_block_quote
    \/ visit_docinfo \/ depart_docinfo
    \/ visit_author \/ depart_author
    \/ visit_date \/ depart_date
    \/ visit_table \/ depart_table
    \/ visit_tgroup \/ depart_tgroup
    \/ visit_colspec \/ depart_colspec
    \/ visit_thead \/ depart_thead
    \/ visit_tbody \/ depart_tbody
    \/ visit_row \/ depart_row
    \/ visit_entry \/ depart_entry
    \/ visit_section \/ depart_section
    \/ visit_topic \/ depart_topic

Spec == Init /\ [][Next]_vars

\* ------------------------------------------------------------------------
\* Properties
\* ------------------------------------------------------------------------
\* The events of the walk so far for the node at position p.
Entered(p) == {i \in DOMAIN trace : trace[i].path = p /\ trace[i].ev \in {"visit", "skip"}}

Exited(p) == {i \in DOMAIN trace : trace[i].path = p /\ trace[i].ev = "depart"}

VisitOf(p) == trace[CHOOSE i \in DOMAIN trace : trace[i].path = p /\ trace[i].ev = "visit"]

Departures == {i \in DOMAIN trace : trace[i].ev = "depart"}

\* The fragments a step appended to the body buffer.
Emitted(e) == SubSeq(e.body1, Len(e.body0) + 1, Len(e.body1))

\* The id attribute of a start tag and the anchors that go with it: the
\* first identifier, and an empty span for each further one.
IdText(ids) == IF ids = <<>> THEN "" ELSE " id=\"" \o ids[1] \o "\""

RECURSIVE Anchors(_)
Anchors(ids) ==
    IF Len(ids) <= 1 THEN ""
    ELSE Anchors(Front(ids)) \o "<span id=\"" \o Last(ids) \o "\"></span>"

\* ---- C1

\* C1 as stated: for every node whose exit step has run, the context stack is
\* as deep after the exit step as it was before the enter step, and the stack
\* is empty once the document's exit step has completed.
C1_Balanced ==
    /\ \A j \in Departures : trace[j].d1 = VisitOf(trace[j].path).d0
    /\ pc = "done" => context = <<>>

\* C1, amended: the depth after a node's exit step equals the depth before its
\* enter step for every node but a table body, after whose exit the stack is
\* one entry shorter: a table group's enter step pushes the entry, a table
\* head's enter step pops and pushes one, the table body's enter step pops it,
\* and no exit step of these three touches the stack.  Every other node pops
\* in its exit step exactly what its enter step pushed, and the stack is
\* empty once the document's exit step has completed.
C1_BalancedButTableBody ==
    /\ \A j \in Departures :
          LET e == trace[j]
              v == VisitOf(e.path)
          IN  /\ e.d1 = IF e.k = "tbody" THEN v.d0 - 1 ELSE v.d0
              /\ e.k = "tgroup" => v.d1 = v.d0 + 1 /\ e.d1 = e.d0
              /\ e.k = "thead" => v.d1 = v.d0 /\ e.d1 = e.d0
              /\ e.k = "tbody" => v.d1 = v.d0 - 1 /\ e.d1 = e.d0
              /\ e.k \notin {"tgroup", "thead", "tbody"} =>
                    /\ v.d1 - v.d0 \in {0, 1}
                    /\ e.d0 - e.d1 = v.d1 - v.d0
    /\ \A i \in DOMAIN trace : trace[i].ev = "skip" => trace[i].d1 = trace[i].d0
    /\ pc = "done" => context = <<>>

\* A table with a head and a body has been translated to the end.
C1_Witness ==
    /\ pc = "done"
    /\ context = <<>>
    /\ \E i, j \in Departures : trace[i].k = "thead" /\ trace[j].k = "tbody"
    /\ \E j \in Departures : trace[j].k = "entry"

\* ---- C2

TitleThenParagraphs ==
    /\ doc.c # <<>>
    /\ doc.c[1].k = "title"
    /\ \A i \in 2..Len(doc.c) : doc.c[i].k = "paragraph"

\* The fragments of the paragraphs that follow the document title.
RECURSIVE PTagged(_)
PTagged(ps) ==
    IF ps = <<>> THEN <<>>
    ELSE <<"<p>", Concat(astext(Head(ps))), "</p>", "\n">> \o PTagged(Tail(ps))

H1Tagged == <<"<h1 class=\"title\">", Concat(astext(doc.c[1])), "</h1>\n">>

\* C2 as stated: after the traversal of a document made of a title with text T
\* and paragraphs, the title buffer holds the h1 start tag, T and the h1 end
\* tag, the body buffer holds the p-tagged paragraphs, and no fragment of the
\* title is left in the body buffer.
C2_TitleBufferTagged ==
    (pc = "done" /\ TitleThenParagraphs) =>
        /\ title = H1Tagged
        /\ body = PTagged(Tail(doc.c))
        /\ {H1Tagged[1], H1Tagged[3]} \cap Range(body) = {}

\* C2, amended: after that traversal the title buffer holds the text T alone,
\* without the h1 tags; the h1 start tag, T and the h1 end tag are what the
\* html_title and the pre-docinfo buffers hold; the body buffer holds exactly
\* the p-tagged paragraphs and none of the title's tags.
C2_TitleBufferText ==
    (pc = "done" /\ TitleThenParagraphs) =>
        /\ title = <<H1Tagged[2]>>
        /\ html_title = H1Tagged
        /\ body_pre_docinfo = H1Tagged
        /\ body = PTagged(Tail(doc.c))
        /\ {H1Tagged[1], H1Tagged[3]} \cap Range(body) = {}

\* The title "Hi" followed by the paragraph "Body" has been translated.
C2_Witness ==
    /\ pc = "done"
    /\ TitleThenParagraphs
    /\ astext(doc.c[1]) = <<"H", "i">>
    /\ Len(doc.c) = 2
    /\ body = <<"<p>", "Body", "</p>", "\n">>

\* ---- C3

\* C3 as stated: right after the exit step of a subtitle that is a child of
\* the document, the subtitle buffer holds the subtitle's content, the
\* pre-docinfo buffer ends with the subtitle's markup, and the body buffer no
\* longer holds that markup.
C3_SubtitleExtracted ==
    (trace # <<>> /\ Last(trace).ev = "depart" /\ Last(trace).k = "subtitle"
        /\ Len(Last(trace).path) = 1) =>
        LET text == Concat(astext(NodeAt(doc, Last(trace).path)))
            markup == <<"<p class=\"subtitle\">", text, "</p>\n">>
        IN  /\ text \in Range(subtitle)
            /\ Len(body_pre_docinfo) >= 3
            /\ SubSeq(body_pre_docinfo, Len(body_pre_docinfo) - 2,
                      Len(body_pre_docinfo)) = markup
            /\ {markup[1], markup[3]} \cap Range(body) = {}

\* ---- C4

\* The start tags of the lists of the model that carry the class 'simple'.
SimpleTags ==
    {"<ul class=\"simple\">\n", "<ul class=\"compact simple\">\n",
     "<ol class=\"simple\">\n", "<ol class=\"compact simple\">\n",
     "<ol class=\"arabic simple\" start=\"3\">\n",
     "<dl class=\"field-list simple\">\n", "<dl class=\"compact field-list simple\">\n",
     "<dl class=\"simple\">\n", "<dl class=\"compact simple\">\n",
     "<dl class=\"docinfo simple\">\n", "<dl class=\"compact docinfo simple\">\n",
     "<ul class=\"compact open simple\">\n", "<ul class=\"open compact simple\">\n",
     "<ol class=\"compact open simple\">\n", "<ol class=\"open compact simple\">\n",
     "<dl class=\"compact open field-list simple\">\n",
     "<dl class=\"open compact field-list simple\">\n",
     "<dl class=\"compact open simple\">\n", "<dl class=\"open compact simple\">\n",
     "<dl class=\"compact open docinfo simple\">\n",
     "<dl class=\"open compact docinfo simple\">\n"}
    \cup {"<ol class=\"arabic simple\"" \o IdText(Ids(n)) \o " start=\"3\">\n"
             \o Anchors(Ids(n)) : n \in 1..(MaxIds + 1)}
    \cup {"<ul class=\"simple\"" \o IdText(Ids(n)) \o ">\n" \o Anchors(Ids(n)) :
            n \in 1..(MaxIds + 1)}

SavedFlags == [compact_simple |-> compact_simple, compact_p |-> compact_p]

\* The enter and exit steps of a list that saves, sets and restores the
\* 'in simple list' flag and is tagged 'simple' unless the flag was set.
SavesAndSets(k) ==
    /\ Visiting(k) =>
          /\ context' = Append(context, SavedFlags)
          /\ compact_simple' = is_compactable(Cur)
          /\ Last(body') \in SimpleTags <=> (is_compactable(Cur) /\ ~compact_simple)
    /\ Departing(k) =>
          /\ compact_simple' = VisitOf(path).cs0
          /\ context' = Front(context)

\* The enter and exit steps of a list that leaves the flag and the stack
\* alone and is tagged 'simple' whenever it is compactable.
TagsOnly(k) ==
    /\ Visiting(k) =>
          /\ UNCHANGED <<context, compact_simple, compact_p>>
          /\ Last(body') \in SimpleTags <=> is_compactable(Cur)
    /\ Departing(k) => UNCHANGED <<context, compact_simple, compact_p>>

\* C4 as stated: each of the five list kinds saves the flag on entry, sets it
\* to is_compactable(list), restores it on exit, and is tagged 'simple' if and
\* only if it is compactable and the flag was false at entry.
C4_AllKindsSaveAndSet ==
    [][\A k \in ListKinds : SavesAndSets(k)]_vars

\* C4, amended: only a bullet list saves the flag on entry, sets it to
\* is_compactable(list), restores it on exit and is tagged 'simple' if and only
\* if it is compactable and the flag was false at entry.  Enumerated, field,
\* definition and docinfo lists neither save nor change the flag and are
\* tagged 'simple' if and only if they are compactable, whatever the flag: a
\* compactable list of these kinds nested in a compactable bullet list is
\* tagged again, and a bullet list nested in one of them is tagged as if it
\* were not nested.
C4_OnlyBulletSavesAndSets ==
    [][/\ SavesAndSets("bullet_list")
       /\ \A k \in ListKinds \ {"bullet_list"} : TagsOnly(k)]_vars

\* A compactable enumerated list nested in a compactable bullet list has been
\* tagged 'simple' while the flag was set, and the traversal has ended with
\* the flag restored.
C4_Witness ==
    /\ pc = "done"
    /\ compact_simple = FALSE
    /\ \E i, j \in DOMAIN trace :
          /\ trace[i].ev = "visit" /\ trace[i].k = "bullet_list"
          /\ ~trace[i].cs0 /\ trace[i].cs1 /\ Last(trace[i].body1) \in SimpleTags
          /\ trace[j].ev = "visit" /\ trace[j].k = "enumerated_list"
          /\ Len(trace[j].path) > Len(trace[i].path)
          /\ SubSeq(trace[j].path, 1, Len(trace[i].path)) = trace[i].path
          /\ trace[j].cs0 /\ Last(trace[j].body1) \in SimpleTags

\* ---- C5

NoteKinds == {"footnote", "citation"}

\* The footnote or citation list opened and closed by the steps so far.
Opened ==
    {i \in DOMAIN trace : trace[i].ev = "visit" /\ trace[i].k \in NoteKinds
                          /\ Len(trace[i].body1) = Len(trace[i].body0) + 1}

Closed ==
    {i \in DOMAIN trace : trace[i].ev = "depart" /\ trace[i].k \in NoteKinds
                          /\ Last(trace[i].body1) = "</dl>\n"}

\* The walk is inside a run of adjacent footnotes or citations: within one of
\* them, or between one and the next of the same kind.
InsideRun ==
    \/ \E n \in 1..Len(path) :
          /\ NodeAt(doc, SubSeq(path, 1, n)).k \in NoteKinds
          /\ n < Len(path) \/ pc = "exit"
    \/ /\ pc = "enter" /\ path # <<>> /\ Last(path) > 1
       /\ Cur.k \in NoteKinds
       /\ Par.c[Last(path) - 1].k = Cur.k

\* C5 as stated: the list wrapper is opened on entering the first node of a
\* run of adjacent footnotes (citations) and closed after the exit of its last
\* node, the flag is true exactly inside a run, and at the end of the
\* traversal as many wrappers have been closed as opened.
C5_OneWrapperPerRun ==
    /\ pc \in {"enter", "exit"} => (in_footnote_list <=> InsideRun)
    /\ pc = "done" => Cardinality(Opened) = Cardinality(Closed)

\* ---- C6

\* The back-link markup of a label with the back-references refs.
ExpectedAnchor(refs) ==
    IF settings.footnote_backlinks /\ Len(refs) = 1
    THEN <<"<a class=\"fn-backref\" href=\"#" \o refs[1] \o "\">">> ELSE <<>>

RECURSIVE NumberedAnchors(_, _)
NumberedAnchors(refs, i) ==
    IF i > Len(refs) THEN ""
    ELSE (IF i > 1 THEN "," ELSE "")
         \o "<a href=\"#" \o refs[i] \o "\">" \o ToString(i) \o "</a>"
         \o NumberedAnchors(refs, i + 1)

ExpectedAfterLabel(refs) ==
    IF settings.footnote_backlinks /\ Len(refs) = 1 THEN <<"</a>">>
    ELSE IF settings.footnote_backlinks /\ Len(refs) > 1
    THEN <<"<span class=\"fn-backref\">(" \o NumberedAnchors(refs, 1) \o ")</span>">>
    ELSE <<>>

\* C6: the enter step of a label emits, after the label's two start tags, one
\* anchor to the reference when back-links are enabled and there is exactly one
\* back-reference, and nothing otherwise; its exit step emits, between the
\* label's closing tag and the opening of the body, the closing of that anchor
\* for one back-reference, one parenthesized list of the n numbered anchors in
\* the order of the back-references for n > 1, and nothing for n = 0 or with
\* back-links disabled.
C6_LabelBacklinks ==
    \A i \in DOMAIN trace :
        trace[i].k = "label" =>
            LET e == trace[i]
                refs == NodeAt(doc, Front(e.path)).a.backrefs
            IN  /\ e.ev = "visit" =>
                      /\ Len(Emitted(e)) >= 2
                      /\ SubSeq(Emitted(e), 3, Len(Emitted(e))) = ExpectedAnchor(refs)
                /\ e.ev = "depart" =>
                      /\ Len(Emitted(e)) >= 2
                      /\ Head(Emitted(e)) = "</span>"
                      /\ Last(Emitted(e)) = "</dt>\n<dd>"
                      /\ SubSeq(Emitted(e), 2, Len(Emitted(e)) - 1)
                            = ExpectedAfterLabel(refs)

\* A label with two back-references has been given its list of two anchors.
C6_Witness ==
    /\ settings.footnote_backlinks
    /\ \E i \in DOMAIN trace :
          /\ trace[i].k = "label" /\ trace[i].ev = "depart"
          /\ NodeAt(doc, Front(trace[i].path)).a.backrefs = <<"r1", "r2">>
          /\ "<span class=\"fn-backref\">(<a href=\"#r1\">1</a>,<a href=\"#r2\">2</a>)</span>"
                \in Range(body)

\* ---- C7

\* C7: the enter step of a header or footer pushes the length of the body
\* buffer and leaves the buffers alone; its exit step leaves the body buffer
\* as it was before the enter step and extends the header (footer) buffer by
\* the wrapper opening, the fragments appended to the body buffer since the
\* enter step, in order, and the wrapper closing.
C7_DecorationSliced ==
    [][/\ Visiting("header") \/ Visiting("footer") =>
             /\ context' = Append(context, Len(body))
             /\ UNCHANGED <<body, header, footer>>
       /\ Departing("header") =>
             /\ body' = VisitOf(path).body0
             /\ header' = header \o <<"<div class=\"header\">\n">>
                          \o SubSeq(body, Len(VisitOf(path).body0) + 1, Len(body))
                          \o <<"\n<hr class=\"header\"/>\n</div>\n">>
             /\ footer' = footer
       /\ Departing("footer") =>
             /\ body' = VisitOf(path).body0
             /\ footer' = footer \o <<"<div class=\"footer\">\n", "<hr class=\"footer\">\n">>
                          \o SubSeq(body, Len(VisitOf(path).body0) + 1, Len(body))
                          \o <<"\n</div>\n">>
             /\ header' = header]_vars

\* A header entered with a non-empty body buffer has been sliced out of it.
C7_Witness ==
    \E i \in Departures :
        /\ trace[i].k = "header"
        /\ trace[i].body1 # <<>>
        /\ trace[i].body1 = VisitOf(trace[i].path).body0
        /\ Len(header) > 2
        /\ Len(trace[i].body0) > Len(trace[i].body1)

\* ---- C8

\* The positions of the nodes of a tree.
RECURSIVE Positions(_)
Positions(node) ==
    {<<>>} \cup UNION {{<<i>> \o p : p \in Positions(node.c[i])} : i \in DOMAIN node.c}

\* The node at p signals 'already fully processed' from its enter step.
FullyProcessed(p) ==
    LET node == NodeAt(doc, p)
    IN  \/ node.k \in {"raw", "comment", "math", "math_block",
                       "substitution_definition"}
        \/ node.k = "generated" /\ "sectnum" \in Range(node.a.classes)

UnderFullyProcessed(p) ==
    \E n \in 0..(Len(p) - 1) : FullyProcessed(SubSeq(p, 1, n))

\* C8 as stated: in a complete traversal the enter step and the exit step of
\* every node run exactly once, the children of a node that signals 'already
\* fully processed' excepted, which are not entered; such a node still
\* receives its own exit step.
C8_ExitAfterSkip ==
    /\ \A p \in Positions(doc) :
          Cardinality(Entered(p)) <= 1 /\ Cardinality(Exited(p)) <= 1
    /\ pc = "done" =>
          \A p \in Positions(doc) :
             IF UnderFullyProcessed(p)
             THEN Entered(p) = {} /\ Exited(p) = {}
             ELSE Cardinality(Entered(p)) = 1 /\ Cardinality(Exited(p)) = 1

\* C8, amended: in a complete traversal the enter step of every node runs
\* exactly once and its exit step exactly once, except that a node whose
\* enter step signals 'already fully processed' (raw, comment, math, math
\* block, substitution definition, section-number generated text) receives no
\* exit step, and neither the enter step nor the exit step of any node below
\* it runs.  The enter step signals it for exactly these nodes.
C8_NoExitAfterSkip ==
    /\ \A p \in Positions(doc) :
          Cardinality(Entered(p)) <= 1 /\ Cardinality(Exited(p)) <= 1
    /\ \A i \in DOMAIN trace :
          /\ trace[i].ev = "skip" => FullyProcessed(trace[i].path)
          /\ trace[i].ev = "visit" => ~FullyProcessed(trace[i].path)
    /\ pc = "done" =>
          \A p \in Positions(doc) :
             IF UnderFullyProcessed(p)
             THEN Entered(p) = {} /\ Exited(p) = {}
             ELSE /\ Cardinality(Entered(p)) = 1
                  /\ Cardinality(Exited(p)) = IF FullyProcessed(p) THEN 0 ELSE 1

\* A traversal has ended in which a math node with a child was entered between
\* two texts of a paragraph.
C8_Witness ==
    /\ pc = "done"
    /\ \E i \in DOMAIN trace :
          /\ trace[i].ev = "skip" /\ trace[i].k = "math"
          /\ NodeAt(doc, trace[i].path).c # <<>>
          /\ i < Len(trace) /\ trace[i + 1].k = "Text"

\* ---- C9

OutputBuffers ==
    <<head_prefix, head, meta, stylesheet, body_prefix, body_suffix, html_prolog,
      html_head, html_body, fragment, body_pre_docinfo, docinfo, body, title,
      subtitle, html_title, html_subtitle, header, footer>>

\* No step so far was taken at a node below a raw node.
NothingUnderRaw ==
    \A i \in DOMAIN trace :
        \A n \in 0..(Len(trace[i].path) - 1) :
            NodeAt(doc, SubSeq(trace[i].path, 1, n)).k # "raw"

\* C9: the enter step of a raw node appends fragments to the body buffer if
\* and only if 'html' is one of the formats the node declares, and otherwise
\* leaves every output buffer unchanged; it never fails, the walk goes on
\* outside the raw node, and no node below a raw node is ever entered.
C9_RawOnlyForHtml ==
    [][/\ Visiting("raw") =>
             /\ IF "html" \in Range(Cur.a.format)
                THEN /\ Len(body') > Len(body)
                     /\ SubSeq(body', 1, Len(body)) = body
                ELSE UNCHANGED OutputBuffers
             /\ pc' # "failed"
             /\ ~(Len(path') > Len(path) /\ SubSeq(path', 1, Len(path)) = path)
       /\ NothingUnderRaw']_vars

\* A raw node in another format, holding a node of an unimplemented kind, has
\* been passed and the traversal has ended without failure.
C9_Witness ==
    /\ pc = "done"
    /\ \E i \in DOMAIN trace :
          /\ trace[i].k = "raw"
          /\ "html" \notin Range(NodeAt(doc, trace[i].path).a.format)
          /\ NodeAt(doc, trace[i].path).c[1].k = "substitution_reference"
          /\ trace[i].body1 = trace[i].body0
    /\ \E i \in DOMAIN trace :
          /\ trace[i].k = "raw"
          /\ "html" \in Range(NodeAt(doc, trace[i].path).a.format)
          /\ trace[i].body1 # trace[i].body0

\* ---- C10

\* The nodes holding the content of a list item, by kind of list.
ItemBodies == {"list_item", "field_body", "definition"}

IgnoredInvisible == {"comment", "substitution_definition", "target"}

\* A list subtree is simple when every item of it is; `nested` is the set of
\* list kinds an item may hold in place of its paragraph, `trailing` the set
\* of list kinds that may follow the paragraph of an item.
RECURSIVE SimpleList(_, _, _)
SimpleItem(item, nested, trailing) ==
    LET visible == SelectSeq(item.c, LAMBDA child : child.k \notin IgnoredInvisible)
    IN  \/ visible = <<>>
        \/ Len(visible) = 1 /\ visible[1].k = "paragraph"
        \/ /\ Len(visible) = 1 /\ visible[1].k \in nested
           /\ SimpleList(visible[1], nested, trailing)
        \/ /\ Len(visible) = 2 /\ visible[1].k = "paragraph"
           /\ visible[2].k \in trailing
           /\ SimpleList(visible[2], nested, trailing)

SimpleList(list, nested, trailing) ==
    \A i \in DOMAIN list.c :
        LET child == list.c[i]
        IN  CASE child.k = "list_item" -> SimpleItem(child, nested, trailing)
              [] child.k \in {"field", "definition_list_item"} ->
                    \A j \in DOMAIN child.c :
                        \/ child.c[j].k \in {"field_name", "term"}
                        \/ /\ child.c[j].k \in ItemBodies
                           /\ SimpleItem(child.c[j], nested, trailing)
              [] child.k \in {"author", "date"} -> TRUE
              [] OTHER -> FALSE

\* The lists the classifier has been applied to: those entered so far.
Classified ==
    {i \in DOMAIN trace : trace[i].ev = "visit" /\ trace[i].k \in ListKinds}

\* What the classifier reported for the list entered by step i: the flag a
\* bullet list sets, the 'simple' tag of the other lists.
Reported(i) ==
    IF trace[i].k = "bullet_list" THEN trace[i].cs1
    ELSE Last(trace[i].body1) \in SimpleTags

\* The list has no class argument, the settings allow compact lists and the
\* list is not in a table of contents: the classifier alone decides.
ClassifierDecides(i) ==
    /\ NodeAt(doc, trace[i].path).a.classes \in {<<>>, <<"simple">>}
    /\ settings.compact_lists /\ settings.compact_field_lists
    /\ \A n \in 0..(Len(trace[i].path) - 1) :
          NodeAt(doc, SubSeq(trace[i].path, 1, n)).k # "topic"

ThreeListKinds == {"bullet_list", "enumerated_list", "field_list"}

\* C10 as stated: the classifier reports a list subtree simple if and only if
\* every visible item in it holds at most one paragraph, optionally followed
\* by one nested bullet, enumerated or field list that is itself simple.
C10_SimpleIffParagraphAndList ==
    \A i \in Classified :
        (ClassifierDecides(i) /\ trace[i].k \in ThreeListKinds) =>
            (Reported(i) <=> SimpleList(NodeAt(doc, trace[i].path),
                                        ThreeListKinds, ThreeListKinds))

\* C10, amended: the classifier reports a list subtree simple if and only if
\* every item in it (list item, field body or definition), invisible nodes
\* left out, is empty, or holds one paragraph, or holds one bullet,
\* enumerated, field or definition list that is itself simple, or holds one
\* paragraph followed by one bullet, enumerated or field list that is itself
\* simple.  A definition list is accepted as the only child of an item but not
\* after a paragraph; any other block, a second paragraph, or a non-simple
\* nested list makes the whole subtree non-simple.
C10_SimpleIffItemsSimple ==
    \A i \in Classified :
        ClassifierDecides(i) =>
            (Reported(i) <=> SimpleList(NodeAt(doc, trace[i].path),
                                        ThreeListKinds \cup {"definition_list"},
                                        ThreeListKinds))

\* The classifier has been applied to a bullet list whose item holds a
\* paragraph and a simple list and reported it simple, and to a list nested in
\* that item; in another step it has reported a list non-simple.
C10_Witness ==
    /\ settings.compact_lists
    /\ \E i \in Classified :
          /\ trace[i].k = "bullet_list" /\ trace[i].path = <<1>>
          /\ Reported(i)
          /\ Len(doc.c[1].c[1].c) = 2
          /\ doc.c[1].c[1].c[2].k = "field_list"
          /\ \E j \in Classified : trace[j].path = <<1, 1, 2>> /\ Reported(j)

\* ---- C11

\* The lists is_compactable handles by kind.
FourListKinds == {"bullet_list", "enumerated_list", "field_list", "definition_list"}

\* The setting that can disable compacting for a list of kind k.
Disabled(k) ==
    \/ k \in {"field_list", "definition_list"} /\ ~settings.compact_field_lists
    \/ k \in {"bullet_list", "enumerated_list"} /\ ~settings.compact_lists

\* The list entered by step i is inside a topic.
InTopic(i) ==
    \E n \in 0..(Len(trace[i].path) - 1) :
        NodeAt(doc, SubSeq(trace[i].path, 1, n)).k = "topic"

\* C11: is_compactable decides by precedence.  A list tagged 'compact' is
\* compact whatever the settings and its content, also when it is tagged
\* 'open' too; otherwise a list tagged 'open' is not compact; otherwise a
\* list whose kind has compacting disabled in the settings is not compact,
\* whatever its content; and outside a topic the content of the list (the
\* classifier) decides only when none of these applies.
C11_Precedence ==
    \A i \in Classified :
        LET list == NodeAt(doc, trace[i].path)
            classes == Range(list.a.classes)
        IN  list.k \in FourListKinds =>
              /\ "compact" \in classes => Reported(i)
              /\ ("compact" \notin classes /\ "open" \in classes) => ~Reported(i)
              /\ ("compact" \notin classes /\ "open" \notin classes /\ Disabled(list.k))
                    => ~Reported(i)
              /\ ("compact" \notin classes /\ "open" \notin classes /\ ~Disabled(list.k)
                    /\ ~InTopic(i))
                    => (Reported(i) <=> SimpleList(list, FourListKinds, ThreeListKinds))

\* A list tagged both 'open' and 'compact', of a kind the settings disable
\* and with an item of two paragraphs, has been reported compact; so has a
\* list tagged 'open' only been reported not compact.
C11_Witness ==
    /\ \E i \in Classified :
          LET list == NodeAt(doc, trace[i].path)
          IN  /\ list.k \in FourListKinds
              /\ list.a.classes = <<"open", "compact">>
              /\ Disabled(list.k)
              /\ ~SimpleList(list, FourListKinds, ThreeListKinds)
              /\ Reported(i)
    /\ pc = "done"

\* ---- C12

\* The list entered by step i is inside a topic tagged 'contents'.
InContents(i) ==
    \E n \in 0..(Len(trace[i].path) - 1) :
        LET up == NodeAt(doc, SubSeq(trace[i].path, 1, n))
        IN  up.k = "topic" /\ "contents" \in Range(up.a.classes)

\* C12 as stated: a list inside a topic whose class tags include 'contents'
\* is always reported compact, whatever its items and the settings, and once
\* the walk has left the topic no list is treated as being in the table of
\* contents.
C12_ContentsAlwaysCompact ==
    /\ \A i \in Classified :
          (InContents(i) /\ NodeAt(doc, trace[i].path).a.classes = <<>>)
              => Reported(i)
    /\ \A j \in Departures : trace[j].k = "topic" =>
          \A i \in Classified :
              (i > j /\ ClassifierDecides(i)) =>
                  (Reported(i) <=> SimpleList(NodeAt(doc, trace[i].path),
                                              FourListKinds, ThreeListKinds))

\* ---- C13

\* floor(width * 100 / total + 1/2): the integer p with
\* p <= width * 100 / total + 1/2 < p + 1.
HalfUp(width, total) ==
    CHOOSE p \in 0..100 :
        /\ 2 * total * p <= 200 * width + total
        /\ 200 * width + total < 2 * total * (p + 1)

\* The steps that wrote the column tags of a table group: the enter step of
\* its head, or of its body when it has no head.
ColumnsWritten ==
    {i \in DOMAIN trace :
        /\ trace[i].ev = "visit"
        /\ \/ trace[i].k = "thead"
           \/ /\ trace[i].k = "tbody"
              /\ \A j \in DOMAIN NodeAt(doc, Front(trace[i].path)).c :
                    NodeAt(doc, Front(trace[i].path)).c[j].k # "thead"}

\* The widths of the columns of the table group holding the node at p.
WidthsAt(p) ==
    LET cols == SelectSeq(NodeAt(doc, Front(p)).c, LAMBDA n : n.k = "colspec")
    IN  [j \in DOMAIN cols |-> cols[j].a.colwidth]

\* C13: for a table group with positive column widths, the j-th column tag
\* states the j-th width's share of the total width in percent, rounded
\* half-up to an integer, and the percentages stated sum to 100 up to half
\* the number of columns.
C13_Percentages ==
    \A i \in ColumnsWritten :
        LET ws == WidthsAt(trace[i].path)
            total == Sum(ws)
            ps == [j \in DOMAIN ws |-> HalfUp(ws[j], total)]
            tags == Emitted(trace[i])
        IN  (ws # <<>> /\ \A j \in DOMAIN ws : ws[j] > 0) =>
              /\ Len(tags) = Len(ws) + 2
              /\ \A j \in DOMAIN ws :
                    \E n \in 0..(MaxIds + 1) :
                        tags[j] = Anchors(Ids(n)) \o "<col" \o IdText(Ids(n))
                                  \o " style=\"width:" \o ToString(ps[j]) \o "%\">\n"
              /\ 2 * (Sum(ps) - 100) <= Len(ws)
              /\ 2 * (100 - Sum(ps)) <= Len(ws)

\* The column tags of a table group with widths 1 and 7 have been written:
\* both shares, 12.5 and 87.5, lie halfway and are rounded up, to a sum of 101.
C13_Witness ==
    \E i \in ColumnsWritten :
        /\ WidthsAt(trace[i].path) = <<1, 7>>
        /\ SubSeq(Emitted(trace[i]), 1, 2)
             = <<"<col style=\"width:13%\">\n", "<col style=\"width:88%\">\n">>

\* ---- C14

\* The enter steps of table cells.
CellsEntered == {i \in DOMAIN trace : trace[i].ev = "visit" /\ trace[i].k = "entry"}

\* The class attributes a cell's start tag can carry.
CellClasses == {"", " class=\"head\"", " class=\"stub\"", " class=\"head stub\""}

\* The text of a span attribute stating `total` rows or columns.
SpanText(name, total) == " " \o name \o "=\"" \o ToString(total) \o "\""

\* The start tags of a cell with the given span attributes.
CellTags(tagnames, colspan, rowspan) ==
    {"<" \o t \o c \o colspan \o rowspan \o ">" : t \in tagnames, c \in CellClasses}

\* C14 as stated: a cell's start tag carries a rowspan (colspan) attribute
\* only when the stored extra-row (extra-column) count is greater than zero,
\* its value being the count plus 1; a stored count of 0 or no stored count
\* gives no attribute.
C14_SpanOnlyIfPositive ==
    \A i \in CellsEntered :
        LET cell == NodeAt(doc, trace[i].path)
        IN  Emitted(trace[i])[1] \in
              CellTags({"td", "th"},
                       IF cell.a.morecols > 0
                       THEN SpanText("colspan", cell.a.morecols + 1) ELSE "",
                       IF cell.a.morerows > 0
                       THEN SpanText("rowspan", cell.a.morerows + 1) ELSE "")

\* C14, amended: a cell's start tag carries a rowspan (colspan) attribute
\* exactly when an extra-row (extra-column) count is stored on the cell, its
\* value being the stored count plus 1; a stored count of 0 gives the
\* attribute with the value 1, and only a cell without a stored count gets
\* no such attribute.
C14_SpanIfStored ==
    \A i \in CellsEntered :
        LET cell == NodeAt(doc, trace[i].path)
        IN  Emitted(trace[i])[1] \in
              CellTags({"td", "th"},
                       IF cell.a.morecols # -1
                       THEN SpanText("colspan", cell.a.morecols + 1) ELSE "",
                       IF cell.a.morerows # -1
                       THEN SpanText("rowspan", cell.a.morerows + 1) ELSE "")

\* A cell storing 1 extra row and 0 extra columns has been entered, followed
\* in its row by a cell that stores neither count.
C14_Witness ==
    \E i, j \in CellsEntered :
        /\ NodeAt(doc, trace[i].path).a.morerows = 1
        /\ NodeAt(doc, trace[i].path).a.morecols = 0
        /\ Emitted(trace[i]) = <<"<td colspan=\"1\" rowspan=\"2\">">>
        /\ Front(trace[j].path) = Front(trace[i].path)
        /\ Emitted(trace[j]) = <<"<td>">>

\* ---- C15

\* The columns taken by the cells of `row` before its k-th cell.
RECURSIVE StartOf(_, _)
StartOf(row, k) ==
    IF k = 1 THEN 0
    ELSE StartOf(row, k - 1)
         + 1 + (IF row.c[k - 1].a.morecols > 0 THEN row.c[k - 1].a.morecols ELSE 0)

\* The stub flags of the columns of the table group holding the cell at p.
StubsAt(p) ==
    LET cols == SelectSeq(NodeAt(doc, SubSeq(p, 1, Len(p) - 3)).c,
                          LAMBDA n : n.k = "colspec")
    IN  [j \in DOMAIN cols |-> cols[j].a.stub]

\* The span attributes a cell's start tag can carry.
SpanTexts ==
    {""} \cup {SpanText(n, t) : n \in {"colspan", "rowspan"}, t \in 1..(MaxCols + 2)}

\* C15: the column cursor of a row is the sum of 1 plus the extra-column
\* count over the cells of the row entered so far; a cell is rendered as th
\* if and only if its row is in the table head or the stub flag of its table
\* group at the cursor position the cell starts at is set, and as td
\* otherwise; the closing tag emitted at the cell's exit is that of the tag
\* chosen at its enter.
C15_CursorAndHeaderCells ==
    /\ \A r \in DOMAIN column :
          LET entered == {i \in CellsEntered : Front(trace[i].path) = r}
          IN  column[r] = StartOf(NodeAt(doc, r), Cardinality(entered) + 1)
    /\ \A i \in CellsEntered :
          LET p == trace[i].path
              start == StartOf(NodeAt(doc, Front(p)), Last(p))
              ishead == \/ NodeAt(doc, SubSeq(p, 1, Len(p) - 2)).k = "thead"
                        \/ StubsAt(p)[start + 1]
              tagname == IF ishead THEN "th" ELSE "td"
          IN  /\ \E colspan, rowspan \in SpanTexts :
                    Emitted(trace[i])[1] \in CellTags({tagname}, colspan, rowspan)
              /\ \A j \in Exited(p) :
                    Emitted(trace[j]) = <<"</" \o tagname \o ">\n">>

\* In a table group whose second column is a stub column, a cell spanning
\* the first two columns has been rendered, and the cell after it, starting
\* at cursor position 2, has been rendered and closed as a data cell; a cell
\* starting at a stub column has been rendered as a header cell elsewhere.
C15_Witness ==
    /\ \E i \in CellsEntered :
          LET p == trace[i].path
          IN  /\ Last(p) = 2
              /\ StartOf(NodeAt(doc, Front(p)), 2) = 2
              /\ StubsAt(p) = <<FALSE, TRUE, FALSE>>
              /\ Emitted(trace[i]) = <<"<td>">>
              /\ Exited(p) # {}
              /\ column[Front(p)] = 3
    /\ pc = "done"

\* ---- C16

\* The characters of what encode puts in place of the character ch.
Characters(ch) ==
    CASE ch = "&" -> <<"&", "a", "m", "p", ";">>
      [] ch = "<" -> <<"&", "l", "t", ";">>
      [] ch = "\"" -> <<"&", "q", "u", "o", "t", ";">>
      [] ch = ">" -> <<"&", "g", "t", ";">>
      [] ch = "@" -> <<"&", "#", "6", "4", ";">>
      [] ch = NBSP -> <<"&", "n", "b", "s", "p", ";">>
      [] OTHER -> <<ch>>

RECURSIVE Flatten(_)
Flatten(ss) == IF ss = <<>> THEN <<>> ELSE Head(ss) \o Flatten(Tail(ss))

\* escape(escape(t)), character by character.
EscapedTwice(t) == encode(Flatten([i \in DOMAIN t |-> Characters(t[i])]))

\* The enter steps of the text nodes whose text is escaped and appended as
\* it is: those outside line blocks, literals and references.
TextsEntered ==
    {i \in DOMAIN trace :
        /\ trace[i].ev = "visit" /\ trace[i].k = "Text"
        /\ \A n \in 1..(Len(trace[i].path) - 1) :
              NodeAt(doc, SubSeq(trace[i].path, 1, n)).k
                  \notin {"line_block", "literal", "reference"}}

\* C16 as stated: a text without a raw '&', '<', '>' or '"', over an
\* alphabet that includes '@' and the non-breaking space, is escaped to
\* itself, and escaping the result again changes nothing.
C16_IdempotentWithoutFour ==
    \A i \in TextsEntered :
        LET t == NodeAt(doc, trace[i].path).a.text
        IN  Range(t) \cap {"&", "<", ">", "\""} = {} =>
              /\ Emitted(trace[i]) = <<Concat(t)>>
              /\ EscapedTwice(t) = Emitted(trace[i])[1]

\* C16, amended: a text with none of the six characters escape replaces,
\* '&', '<', '>', '"', '@' and the non-breaking space, is escaped to itself,
\* and escaping the result again changes nothing.
C16_IdempotentWithoutSix ==
    \A i \in TextsEntered :
        LET t == NodeAt(doc, trace[i].path).a.text
        IN  Range(t) \cap {"&", "<", ">", "\"", "@", NBSP} = {} =>
              /\ Emitted(trace[i]) = <<Concat(t)>>
              /\ EscapedTwice(t) = Emitted(trace[i])[1]

\* A text of an ordinary character and a space has been escaped to itself,
\* the only text of its document.
C16_Witness ==
    /\ doc.c = <<Paragraph(<<"a", " ">>)>>
    /\ \E i \in TextsEntered : Emitted(trace[i]) = <<"a ">>
    /\ pc = "done"

\* ---- C17

\* The enter steps of the nodes of kind k without class tags.
PlainEntered(k) ==
    {i \in DOMAIN trace :
        /\ trace[i].ev = "visit" /\ trace[i].k = k
        /\ NodeAt(doc, trace[i].path).a.classes = <<>>}

\* C17: the id attribute of a start tag is the node's first identifier and
\* every further identifier yields one empty span anchor, in identifier
\* order, placed right after the start tag (and its line break) of a
\* non-empty element (p, ul) and right before the tag of an empty element
\* (col); one identifier yields no anchor, no identifier no id attribute.
C17_IdAndAnchors ==
    /\ \A i \in PlainEntered("paragraph") :
          LET ids == NodeAt(doc, trace[i].path).a.ids
          IN  Emitted(trace[i]) = <<"<p" \o IdText(ids) \o ">" \o Anchors(ids)>>
    /\ \A i \in PlainEntered("bullet_list") :
          LET ids == NodeAt(doc, trace[i].path).a.ids
          IN  \E c \in {"", " class=\"simple\""} :
                Emitted(trace[i]) = <<"<ul" \o c \o IdText(ids) \o ">\n" \o Anchors(ids)>>
    /\ \A i \in ColumnsWritten :
          LET cols == SelectSeq(NodeAt(doc, Front(trace[i].path)).c,
                                LAMBDA n : n.k = "colspec")
          IN  Len(cols) = 1 =>
                Emitted(trace[i])[1] = Anchors(cols[1].a.ids) \o "<col"
                                       \o IdText(cols[1].a.ids)
                                       \o " style=\"width:100%\">\n"

\* A paragraph with three identifiers has been entered, with two anchors
\* after its start tag; in another document the tag of a column with three
\* identifiers has been written after its two anchors.
C17_Witness ==
    \/ /\ \E i \in PlainEntered("paragraph") :
             Emitted(trace[i])
               = <<"<p id=\"i1\"><span id=\"i2\"></span><span id=\"i3\"></span>">>
       /\ pc = "done"
    \/ /\ \E i \in ColumnsWritten :
             Emitted(trace[i])[1]
               = "<span id=\"i2\"></span><span id=\"i3\"></span>"
                 \o "<col id=\"i1\" style=\"width:100%\">\n"
       /\ pc = "done"

\* ---- C18

\* The class attribute visit_entry can supply.
CellClassAtts ==
    {NoAtts, "class" :> "head", "class" :> "stub", "class" :> "head stub"}

\* C18: the attributes of a start tag appear in lexicographic order of
\* their names whatever the order the caller's attribute map yields them in.
\* A numbered list's tag reads class, id, start; and the tag of a table cell
\* is the one text that every order of its class, colspan and rowspan
\* attributes gives.
C18_SortedAttributes ==
    /\ \A i \in DOMAIN trace :
          LET list == NodeAt(doc, trace[i].path)
          IN  (/\ trace[i].ev = "visit" /\ trace[i].k = "enumerated_list"
               /\ list.a.start # "" /\ list.a.enumtype # "") =>
                \E c \in {"", " simple"} :
                    Emitted(trace[i])
                      = <<"<ol class=\"" \o list.a.enumtype \o c \o "\""
                          \o IdText(list.a.ids) \o " start=\"" \o list.a.start
                          \o "\">\n" \o Anchors(list.a.ids)>>
    /\ \A i \in CellsEntered :
          \E t \in {"td", "th"}, c \in CellClassAtts :
              \A o \in Orders(c @@ entry_spans(NodeAt(doc, trace[i].path))) :
                  Emitted(trace[i]) = <<tag_text(t, o)>>

\* A stub cell that stores both counts has been entered, its tag reading
\* class, colspan, rowspan.
C18_Witness ==
    /\ \E i \in CellsEntered :
          Emitted(trace[i]) = <<"<th class=\"stub\" colspan=\"2\" rowspan=\"2\">">>
    /\ pc = "done"

\* ---- C19

\* The enter steps of formula nodes, inline and block.
FormulasEntered ==
    {i \in DOMAIN trace : trace[i].ev = "skip" /\ trace[i].k \in {"math", "math_block"}}

\* The escaped text of a node, character by character.
Escaped(node) ==
    LET t == astext(node) IN Concat(Flatten([i \in DOMAIN t |-> Characters(t[i])]))

\* What the typeset-passthrough mode emits for a formula.
Passthrough(node) ==
    IF node.k = "math"
    THEN <<"<tt class=\"math\">", Escaped(node), "</tt>">>
    ELSE <<"<pre class=\"math\">\n", Escaped(node), "\n", "</pre>", "\n">>

Unrecognized ==
    Lower(settings.math_output[1]) \notin {"mathml", "html", "mathjax", "latex"}

\* C19: with an unrecognized math output mode, entering a formula reports
\* the configuration problem, every formula entered, the first and the later
\* ones, is rendered in typeset-passthrough mode, no handler fails, and the
\* text after a formula in its paragraph is rendered as usual.
C19_FallbackToLatex ==
    Unrecognized =>
        /\ FormulasEntered # {} =>
              /\ reported # <<>>
              /\ reported[1] = "math-output format \"" \o Lower(settings.math_output[1])
                               \o "\" not supported falling back to \"latex\""
        /\ \A i \in FormulasEntered :
              Emitted(trace[i]) = Passthrough(NodeAt(doc, trace[i].path))
        /\ \A i \in DOMAIN trace : trace[i].ev # "raise"
        /\ pc # "failed"
        /\ \A i \in TextsEntered :
              Emitted(trace[i]) = <<Escaped(NodeAt(doc, trace[i].path))>>

\* With an unrecognized mode, a block formula and then a paragraph holding
\* an inline formula between two texts have been translated to the end.
C19_Witness ==
    /\ Unrecognized
    /\ pc = "done"
    /\ Len(doc.c) = 2 /\ doc.c[1].k = "math_block" /\ doc.c[2].k = "paragraph"
    /\ Cardinality(FormulasEntered) = 2
    /\ Len(reported) = 1
    /\ SubSeq(fragment, Len(fragment) - 2, Len(fragment)) = <<"b", "</p>", "\n">>

\* ---- C20

\* The script include of the MathJax mode.
ScriptInclude ==
    "<script type=\"text/javascript\" src=\""
    \o (IF Len(settings.math_output) > 1 THEN settings.math_output[2]
        ELSE "http://cdn.mathjax.org/mathjax/latest/MathJax.js?config=TeX-AMS-MML_HTMLorMML")
    \o "\"></script>\n"

Occurrences(buffer, fragm) == Cardinality({i \in DOMAIN buffer : buffer[i] = fragm})

\* C20: in MathJax mode the head buffer of a finished traversal holds the
\* script include exactly once if a formula node, inline or block, has been
\* entered, however many were, and not at all if none has.
C20_IncludeOnce ==
    (Lower(settings.math_output[1]) = "mathjax" /\ pc = "done") =>
        Occurrences(head, ScriptInclude) = IF FormulasEntered # {} THEN 1 ELSE 0

\* A traversal in MathJax mode that entered an inline and a block formula
\* has finished with one script include in the head buffer.
C20_Witness ==
    /\ Lower(settings.math_output[1]) = "mathjax"
    /\ pc = "done"
    /\ \E i, j \in FormulasEntered : trace[i].k = "math" /\ trace[j].k = "math_block"
    /\ Occurrences(head, ScriptInclude) = 1

\* ---- C24

Whitespace == {" ", "\n", "\r", "\t"}

NonAscii == {NBSP, "U+3042", "U+3044"}

RECURSIVE RStripped(_)
RStripped(t) ==
    IF t # <<>> /\ Last(t) \in Whitespace THEN RStripped(Front(t)) ELSE t

RECURSIVE LStripped(_)
LStripped(t) ==
    IF t # <<>> /\ Head(t) \in Whitespace THEN LStripped(Tail(t)) ELSE t

\* The earlier run ends with a non-ASCII character and optional whitespace,
\* the later run begins with optional whitespace and a non-ASCII character.
AroundNonAscii(t1, t2) ==
    /\ RStripped(t1) # <<>> /\ Last(RStripped(t1)) \in NonAscii
    /\ LStripped(t2) # <<>> /\ Head(LStripped(t2)) \in NonAscii

\* The steps that entered a paragraph, completed or not.
ParagraphSteps ==
    {i \in DOMAIN trace : trace[i].k = "paragraph" /\ trace[i].ev \in {"visit", "raise"}}

\* C24: the enter step of a paragraph completes and emits the paragraph's
\* start tag, and after it no two consecutive text runs of the paragraph
\* that meet around non-ASCII characters keep whitespace between them.
C24_StripsAroundAndCompletes ==
    \A i \in ParagraphSteps :
        LET ts == TextsOf(NodeAt(doc, trace[i].path))
        IN  /\ trace[i].ev = "visit"
            /\ Len(Emitted(trace[i])) = 1
            /\ \A j \in 1..(Len(ts) - 1) :
                  AroundNonAscii(ts[j], ts[j + 1]) =>
                      ts[j] = RStripped(ts[j]) /\ ts[j + 1] = LStripped(ts[j + 1])

\* ---- C25 ----------------------------------------------------------------
\* The visit of the node whose departure is due.
EnteredAt(p) ==
    trace[CHOOSE i \in 1..Len(trace) : trace[i].path = p /\ trace[i].ev = "visit"]

\* C25, as stated: the exit step of a title that is a direct child of a
\* section takes the title's fragments out of the body buffer and puts them
\* into the title buffer and the pre-docinfo buffer.
C25_SectionTitleSliced ==
    [][(Departing("title") /\ Par.k = "section") =>
          /\ Len(body') <= Len(EnteredAt(path).body0)
          /\ title' # title
          /\ Len(body_pre_docinfo') > Len(body_pre_docinfo)]_vars

\* C25, amended: the exit step of a title that is a direct child of a section
\* appends the closing tag of the heading to the body buffer, where all the
\* fragments of the title stay, and changes none of the title buffer, the
\* pre-docinfo buffer and the html_title buffer; only the exit step of a title
\* that is a direct child of the document empties the body buffer, into the
\* title buffer (the fragments between the tags) and the pre-docinfo and
\* html_title buffers (all of the body buffer).
C25_OnlyDocumentTitleSliced ==
    [][/\ (Departing("title") /\ Par.k = "section") =>
             /\ body' = Append(body, SectionTitle(Cur, Par).close_tag)
             /\ SubSeq(body', 1, Len(EnteredAt(path).body1)) = EnteredAt(path).body1
             /\ UNCHANGED <<title, body_pre_docinfo, html_title>>
       /\ (Departing("title") /\ Par.k = "document") =>
             /\ body' = <<>>
             /\ title' = SubSeq(body, Len(EnteredAt(path).body1) + 1, Len(body))
             /\ body_pre_docinfo' = body_pre_docinfo \o body \o <<"</h1>\n">>
             /\ html_title' = html_title \o body \o <<"</h1>\n">>]_vars

\* The title of a section has departed in a document that has a title too.
C25_Witness ==
    /\ title = <<"Body">>
    /\ body_pre_docinfo # <<>>
    /\ \E i \in 1..Len(trace) :
          /\ trace[i].ev = "depart" /\ trace[i].k = "title"
          /\ NodeAt(doc, Front(trace[i].path)).k = "section"
          /\ Last(body) \in {"</h1>\n", "</a></h1>\n"}

\* ---- C27 ----------------------------------------------------------------
\* The elements a label's enter step leaves open, in the order of opening:
\* the dt, the span and, when a third fragment follows, the back-link anchor.
OpenedBy(fragments) ==
    <<"dt", "span">> \o (IF Len(fragments) > 2 THEN <<"a">> ELSE <<>>)

\* The element a fragment of the exit step closes; a fragment that closes
\* what it opened itself closes none.
Closes(f) ==
    CASE f = "</span>" -> <<"span">>
      [] f = "</a>" -> <<"a">>
      [] f = "</dt>\n<dd>" -> <<"dt">>
      [] OTHER -> <<>>

RECURSIVE ClosedBy(_)
ClosedBy(fragments) ==
    IF fragments = <<>> THEN <<>>
    ELSE Closes(Head(fragments)) \o ClosedBy(Tail(fragments))

Reversed(s) == [i \in 1..Len(s) |-> s[Len(s) + 1 - i]]

\* C27: the elements opened by a label's enter step are closed by its exit
\* step in the reverse order of opening, for every number of back-references;
\* with one back-reference the anchor is closed before the span.
C27_LabelWellNested ==
    \A i \in 1..Len(trace) :
        (trace[i].ev = "depart" /\ trace[i].k = "label") =>
            ClosedBy(Emitted(trace[i]))
                = Reversed(OpenedBy(Emitted(EnteredAt(trace[i].path))))

\* ---- C28 ----------------------------------------------------------------
\* The enter steps of the heads and bodies of table groups.
GroupPartsEntered ==
    {i \in DOMAIN trace :
        /\ trace[i].ev = "visit" /\ trace[i].k \in {"thead", "tbody"}
        /\ NodeAt(doc, Front(trace[i].path)).k = "tgroup"}

ColTags ==
    {Anchors(Ids(n)) \o "<col" \o IdText(Ids(n))
     \o " style=\"width:" \o ToString(p) \o "%\">\n" :
        n \in 0..(MaxIds + 1), p \in 0..100}

\* The table group the walk is in, if any.
InGroup(p) == \E n \in 1..Len(p) : NodeAt(doc, SubSeq(p, 1, n)).k = "tgroup"

\* C28: the first of the head and body of a table group emits one col tag
\* for each column spec of that group, then one colgroup closing tag, then
\* its own start tag; the second emits no col tag and no colgroup closing
\* tag; no column spec is pending when a table group is entered or left, nor
\* anywhere outside the table groups.
C28_ColumnsOncePerGroup ==
    /\ \A i \in GroupPartsEntered :
          LET tags == Emitted(trace[i])
              n == Len(WidthsAt(trace[i].path))
          IN  IF i \in ColumnsWritten
              THEN /\ Len(tags) = n + 2
                   /\ \A j \in 1..n : tags[j] \in ColTags
                   /\ tags[n + 1] = "</colgroup>\n"
                   /\ tags[n + 2] = "<" \o trace[i].k \o ">\n"
              ELSE tags = <<"", "<tbody>\n">>
    /\ (Cur.k = "tgroup" \/ ~InGroup(path)) => colspecs = <<>>
    /\ \A j \in DOMAIN colspecs :
          \E n \in 1..Len(path) :
              /\ NodeAt(doc, SubSeq(path, 1, n)).k = "tgroup"
              /\ colspecs[j] \in Range(NodeAt(doc, SubSeq(path, 1, n)).c)

\* The body of a second table group has been entered after its head, the
\* two groups differing in their number of columns.
C28_Witness ==
    \E i \in GroupPartsEntered, j \in GroupPartsEntered :
        /\ i \in ColumnsWritten /\ j \notin ColumnsWritten /\ i < j
        /\ Front(trace[i].path) # Front(trace[j].path)
        /\ Len(WidthsAt(trace[i].path)) > Len(WidthsAt(trace[j].path))
        /\ colspecs = <<>>

\* ---- C29 ----------------------------------------------------------------
\* The steps taken at a docinfo node or below one.
DocinfoSteps ==
    {i \in DOMAIN trace :
        /\ trace[i].ev \in {"visit", "depart"}
        /\ \E n \in 1..Len(trace[i].path) :
              NodeAt(doc, SubSeq(trace[i].path, 1, n)).k = "docinfo"}

OpenSections ==
    {n \in 1..Len(path) :
        /\ NodeAt(doc, SubSeq(path, 1, n)).k = "section"
        /\ n < Len(path) \/ pc = "exit"}

\* The start tags of the six heading elements.
Headings ==
    {"<h" \o ToString(l) \o cls \o ">" :
        l \in 1..6, cls \in {"", " class=\"with-subtitle\""}}

\* C30: the section level is the number of open sections in every state, and
\* the start tag emitted for the title of a section is that of one of h1..h6.
C30_LevelAndHeading ==
    /\ section_level = Cardinality(OpenSections)
    /\ \A i \in DOMAIN trace :
          (/\ trace[i].ev = "visit" /\ trace[i].k = "title"
           /\ NodeAt(doc, Front(trace[i].path)).k = "section") =>
              Head(Emitted(trace[i])) \in Headings

\* ---- C21 ----------------------------------------------------------------
\* An obfuscated reference: its target starts with mailto: and mail
\* obfuscation is enabled.
Obfuscated(node) ==
    /\ settings.cloak_email_addresses
    /\ node.k = "reference"
    /\ node.a.refuri # <<>> /\ Head(node.a.refuri) = "mailto:"

\* The node at p lies inside an obfuscated reference.
InObfuscated(p) ==
    \E n \in 1..(Len(p) - 1) : Obfuscated(NodeAt(doc, SubSeq(p, 1, n)))

PercentEncoded(uri) ==
    Concat([i \in DOMAIN uri |-> IF uri[i] = "@" THEN "%40" ELSE uri[i]])

\* A text with every escaped "@" and every "." in a span of its own.
Wrapped(text) ==
    Concat([i \in DOMAIN text |->
               CASE text[i] = "@" -> "<span>&#64;</span>"
                 [] text[i] = "." -> "<span>&#46;</span>"
                 [] OTHER -> encodeChar(text[i])])

\* The node at p lies inside a line block or a literal.
InProtected(p) ==
    \E n \in 1..(Len(p) - 1) :
        NodeAt(doc, SubSeq(p, 1, n)).k \in {"line_block", "literal"}

\* C21: an obfuscated reference is emitted with "%40" for every "@" of its
\* target, and every text run between its enter and exit steps is emitted
\* with "@" and "." wrapped; the mode is on exactly between those steps;
\* every other target and text run is emitted unaltered.
C21_MailObfuscation ==
    /\ \A i \in DOMAIN trace :
          (trace[i].ev = "visit" /\ trace[i].k = "reference") =>
              LET node == NodeAt(doc, trace[i].path)
              IN  node.a.refuri # <<>> =>
                      Emitted(trace[i]) =
                          <<"<a class=\"reference external\" href=\""
                            \o (IF Obfuscated(node) THEN PercentEncoded(node.a.refuri)
                                ELSE Concat(node.a.refuri))
                            \o "\">">>
    /\ \A i \in DOMAIN trace :
          (trace[i].ev = "visit" /\ trace[i].k = "Text") =>
              LET text == NodeAt(doc, trace[i].path).a.text
              IN  IF InObfuscated(trace[i].path)
                  THEN Emitted(trace[i]) = <<Wrapped(text)>>
                  ELSE InProtected(trace[i].path)
                       \/ Emitted(trace[i]) = <<encode(text)>>
    /\ in_mailto <=>
          \E n \in 1..Len(path) :
              /\ Obfuscated(NodeAt(doc, SubSeq(path, 1, n)))
              /\ n < Len(path) \/ pc = "exit"

\* The same for the text runs that lie in no line block and no literal.
C21_OutsideProtectedText ==
    /\ \A i \in DOMAIN trace :
          (trace[i].ev = "visit" /\ trace[i].k = "Text"
           /\ ~InProtected(trace[i].path)) =>
              Emitted(trace[i]) =
                  <<IF InObfuscated(trace[i].path)
                    THEN Wrapped(NodeAt(doc, trace[i].path).a.text)
                    ELSE encode(NodeAt(doc, trace[i].path).a.text)>>
    /\ in_mailto <=>
          \E n \in 1..Len(path) :
              /\ Obfuscated(NodeAt(doc, SubSeq(path, 1, n)))
              /\ n < Len(path) \/ pc = "exit"

\* ---- C26 ----------------------------------------------------------------
\* An attribute value cleansed: whitespace characters become spaces, the
\* characters & < > " @ are escaped and, inside an obfuscated reference,
\* "%40" and "." become character references.
Cleansed(value, obfuscated) ==
    Concat([i \in DOMAIN value |->
               CASE value[i] \in {"\n", "\r", "\t"} -> " "
                 [] obfuscated /\ value[i] = "%40" -> "&#37;&#52;&#48;"
                 [] obfuscated /\ value[i] = "." -> "&#46;"
                 [] OTHER -> encodeChar(value[i])])

\* C26: the target written into the start tag of a reference has been
\* cleansed, after its "@" became "%40" when the reference is obfuscated.
C26_AttributesCleansed ==
    \A i \in DOMAIN trace :
        (trace[i].ev = "visit" /\ trace[i].k = "reference") =>
            LET node == NodeAt(doc, trace[i].path)
                href == IF Obfuscated(node)
                        THEN [j \in DOMAIN node.a.refuri |->
                                 IF node.a.refuri[j] = "@" THEN "%40"
                                 ELSE node.a.refuri[j]]
                        ELSE node.a.refuri
            IN  node.a.refuri # <<>> =>
                    Emitted(trace[i]) =
                        <<"<a class=\"reference external\" href=\""
                          \o Cleansed(href, Obfuscated(node)) \o "\">">>

\* ---- C22 ----------------------------------------------------------------
\* The enter steps of the images that have neither a width nor a height.
UnsizedImages ==
    {i \in DOMAIN trace :
        /\ trace[i].ev = "visit" /\ trace[i].k = "image"
        /\ NodeAt(doc, trace[i].path).a.width = <<>>
        /\ NodeAt(doc, trace[i].path).a.height = <<>>}

\* The style values that consist of the three entries in some order.
StylesOf(a, b, c) ==
    {a \o b \o c, a \o c \o b, b \o a \o c, b \o c \o a, c \o a \o b, c \o b \o a}

\* The style values of an image limited to `percent` per cent of the width.
FallbackStyles(percent) ==
    UNION {StylesOf("max-width:" \o ToString(percent) \o "%;", "height:auto;",
                    "vertical-align:" \o v \o ";") : v \in {"top", "middle", "bottom"}}

\* The attributes that state the size of the image file, if it was opened.
FileSizes == {<<"", "">>, <<" height=\"100\"", " width=\"200\"">>}

\* The tags of the element `name` whose attributes are, in sorted order,
\* `first`, a height, `mid`, one of `styles`, `last` and a width, with `rest`
\* after the tag.
TagsWith(name, first, mid, styles, last, rest) ==
    {"<" \o name \o first \o size[1] \o mid \o " style=\"" \o style \o "\"" \o last
     \o size[2] \o ">" \o rest \o suffix :
        size \in FileSizes, style \in styles, suffix \in {"", "\n"}}

ImgTags(uri, styles) ==
    TagsWith("img", " alt=\"" \o uri \o "\"", " src=\"" \o uri \o "\"", styles, "", "")

\* C22: the style of an image without width and height consists of a
\* max-width of the scale in per cent, 100 without a scale, of an automatic
\* height and of the vertical alignment, and of no width.
C22_FallbackStyle ==
    \A i \in UnsizedImages :
        LET node == NodeAt(doc, trace[i].path)
        IN  Last(Emitted(trace[i])) \in
                ImgTags(Concat(node.a.uri),
                        FallbackStyles(IF node.a.scale # -1 THEN node.a.scale ELSE 100))

\* An image scaled to 50 per cent, without width and height and with a file
\* that was not opened, has been written.
C22_Witness ==
    \E i \in UnsizedImages :
        /\ NodeAt(doc, trace[i].path).a.scale = 50
        /\ Last(Emitted(trace[i]))
             = "<img alt=\"x.png\" src=\"x.png\" "
               \o "style=\"max-width:50%;height:auto;vertical-align:bottom;\">\n"

\* ---- C23 ----------------------------------------------------------------
\* The URI ends in .swf, in any letter case.
IsFlash(uri) == uri # <<>> /\ Last(uri) \in {".swf", ".SWF"}

\* The object and embed elements of a file, whatever its style is.
ObjectTags(uri, styles) ==
    UNION {TagsWith("object", " data=\"" \o uri \o "\"", "", styles,
                    " type=\"application/x-shockwave-flash\"",
                    "\n<param name=\"movie\" value=\"" \o uri \o "\"><embed src=\""
                    \o src \o "\"></embed></object>") : src \in {uri, "%s"}}

\* C23: an image without width and height whose URI ends in .swf is written
\* as an object element holding an embed element, every other one as an img
\* element.
C23_FlashAsObject ==
    \A i \in UnsizedImages :
        LET node == NodeAt(doc, trace[i].path)
            styles == FallbackStyles(IF node.a.scale # -1 THEN node.a.scale ELSE 100)
        IN  Last(Emitted(trace[i])) \in
                IF IsFlash(node.a.uri)
                THEN ObjectTags(Concat(node.a.uri), styles)
                ELSE ImgTags(Concat(node.a.uri), styles)

====
